---- MODULE Spec2Model ----
(***************************************************************************)
(* Model of the price tracker's core: the validator (security_config.py),  *)
(* the deduplicating dual-sink ledger (data_logger.py), the threshold      *)
(* alert engine with per-symbol cooldown (alert_system.py), the ingestion  *)
(* cycle that feeds both (main.py), the request pacing of the scraper      *)
(* (price_scraper.py) and the administrative endpoints (dashboard.py).     *)
(*                                                                         *)
(* Units.  datetime values are in whole seconds (sampled on the second     *)
(* grid); time.time() of the scraper is in tenths of a second.  Prices are *)
(* in whole dollars.  Percentages (changes, thresholds) are in tenths of a *)
(* percent, the resolution of config.MIN_THRESHOLD = 0.1: float64          *)
(* quantities are sampled on these integer grids.                          *)
(*                                                                         *)
(* Python values of unknown type ("Any") are records [t |-> tag, v |-> n]: *)
(* tag "int"/"float" carry the number v, "bool" carries 0/1 (bool is a     *)
(* subclass of int), "nan" is float('nan'), "str" is a text that does not   *)
(* read as a number, "numstr" the text of the number v, "nanstr" the text  *)
(* "nan", "none" is None, "absent" stands for a key missing from the dict. *)
(***************************************************************************)
EXTENDS Integers, Sequences, FiniteSets, TLC

VARIABLES
    now,          \* the wall clock read by datetime.now()
    db,           \* price_data table: sequence of rows, id = position
    csv,          \* price_logs.csv: sequence of appended rows
    observed,     \* history: observed[i] is the 'timestamp' of the observation stored as db[i]
    last_alerts,  \* AlertSystem.last_alerts: symbol -> time of the last alert
    threshold,    \* AlertSystem.threshold (a float, possibly nan)
    cooldown,     \* AlertSystem.cooldown
    request_counts,  \* dashboard.request_counts: client_ip -> count and reset_time
    clock,        \* the clock read by time.time()
    last_request_time,  \* PriceScraper.last_request_time
    threads,      \* the calls in progress on the worker threads: what each holds in its locals
    faults,       \* history: how many calls met a failing access to a sink so far
    call,         \* history: the last operation invoked
    ret           \* history: what that operation returned and what it met

vars == <<now, db, csv, observed, last_alerts, threshold, cooldown, request_counts,
          clock, last_request_time, threads, faults, call, ret>>

-----------------------------------------------------------------------------
(* Program constants *)

MAX_SYMBOL_LENGTH == 50
MAX_PRICE_VALUE == 1000000000
\* 1000 percent
MAX_CHANGE_PERCENT == 10000
\* 5.0 percent
ALERT_THRESHOLD == 50
ALERT_COOLDOWN == 300
\* timedelta(minutes=1) of _is_duplicate, in seconds
DedupWindow == 60
\* timedelta(days=1) of cleanup_old_data, in seconds
Day == 86400
DEFAULT_CLEANUP_DAYS == 30
MAX_CLEANUP_DAYS == 3650
\* requests per minute
COINGECKO_RATE_LIMIT == 50
\* the 60 of 60 / config.COINGECKO_RATE_LIMIT, in tenths of a second
Minute == 600
\* timedelta(hours=1) of get_asset_history, in seconds
Hour == 3600
MAX_REQUESTS_PER_MINUTE == 60
\* timedelta(minutes=1) of the dashboard's rate_limit, in seconds
RequestWindow == 60
DEFAULT_LIMIT == 50
MAX_LIMIT == 1000
DEFAULT_HISTORY_HOURS == 24
MAX_HISTORY_HOURS == 8760
CHART_HISTORY_HOURS == 24
\* 0.1 percent and 100.0 percent
MIN_THRESHOLD == 1
MAX_THRESHOLD == 1000
MIN_COOLDOWN == 60
MAX_COOLDOWN == 3600
MIN_CLEANUP_DAYS == 1
MAX_CLEANUP_DAYS_INPUT == 365
\* the literals of api_chart and api_cleanup
MinChartHours == 1
MaxChartHours == 168
CleanupDaysDefault == 30

(* Bounds of the model *)
\* rows the table and the flat log may each hold
MaxRows == 2
\* seconds a batch may have been fetched before it is handled
MaxFetchLag == 1
\* calls that may meet a failing sink access (query, INSERT or append)
MaxFaults == 1
\* numbers sampled on each side of zero for the validators
MaxSample == 20
\* what time.time() reads when the scraper is constructed (any instant more
\* than rate_limit_delay after the epoch)
StartClock == 100
\* tenths of a second of the scraper's clock that are explored
ClockHorizon == 40
\* tenths of a second time.sleep may return late
MaxOversleep == 2
\* requests of one client explored beyond MAX_REQUESTS_PER_MINUTE
MaxOverLimit == 2

AssetTypes == {"crypto", "stock"}

-----------------------------------------------------------------------------
(* Python values *)

Num(tag, n) == [t |-> tag, v |-> n]
F(n) == Num("float", n)
None == Num("none", 0)
Absent == [t |-> "absent", v |-> 0]
NoType == "<absent>"

\* isinstance(x, (int, float))
IsIntOrFloat(x) == x.t \in {"int", "float", "bool", "nan"}

\* every ordering comparison with NaN is False
Less(x, n) == x.t # "nan" /\ x.v < n
LessEq(x, n) == x.t # "nan" /\ x.v <= n
Greater(x, n) == x.t # "nan" /\ x.v > n
GreaterEq(x, n) == x.t # "nan" /\ x.v >= n
\* x > y and x >= y of two numbers
GreaterNum(x, y) == y.t # "nan" /\ Greater(x, y.v)
GreaterEqNum(x, y) == y.t # "nan" /\ GreaterEq(x, y.v)

\* isinstance(x, int)
IsInt(x) == x.t \in {"int", "bool"}

\* float(x) of an int, a bool or a float
Float(x) == IF x.t = "nan" THEN x ELSE [t |-> "float", v |-> x.v]

Abs(n) == IF n < 0 THEN -n ELSE n
\* abs(x) of a number: abs(nan) is nan
AbsVal(x) == [t |-> x.t, v |-> Abs(x.v)]

-----------------------------------------------------------------------------
(* security_config.py: the validator *)

\* characters are codes; those of [A-Za-z0-9.-] are the positive ones
PatternChar(c) == c > 0

validate_symbol(symbol) ==
    IF symbol = <<>> THEN FALSE
    ELSE IF Len(symbol) > MAX_SYMBOL_LENGTH THEN FALSE
    ELSE IF ~(\A i \in 1..Len(symbol) : PatternChar(symbol[i])) THEN FALSE
    ELSE TRUE

validate_price(price) ==
    IF ~IsIntOrFloat(price) THEN FALSE
    ELSE IF LessEq(price, 0) \/ Greater(price, MAX_PRICE_VALUE) THEN FALSE
    ELSE TRUE

\* a bound that rejects the maximum itself
validate_change_percent_Exclusive(change) ==
    IF ~IsIntOrFloat(change) THEN FALSE
    ELSE IF GreaterEq(AbsVal(change), MAX_CHANGE_PERCENT) THEN FALSE
    ELSE TRUE

validate_change_percent(change) ==
    IF ~IsIntOrFloat(change) THEN FALSE
    ELSE IF Greater(AbsVal(change), MAX_CHANGE_PERCENT) THEN FALSE
    ELSE TRUE

validate_price_data(symbol, price_data) ==
    IF symbol = <<>> THEN FALSE
    ELSE IF price_data.price = Absent \/ price_data.change_24h = Absent
            \/ price_data.type = NoType THEN FALSE
    ELSE IF ~validate_price(price_data.price) THEN FALSE
    ELSE IF ~validate_change_percent(price_data.change_24h) THEN FALSE
    ELSE IF price_data.type \notin AssetTypes THEN FALSE
    ELSE TRUE

-----------------------------------------------------------------------------
(* Inputs.  A batch ("prices") is a Python dict: here a sequence of items   *)
(* [symbol, data] with pairwise distinct symbols, in insertion order.      *)

Data(price, change, type, ts) ==
    [price |-> price, change_24h |-> change, type |-> type, timestamp |-> ts]
Item(symbol, data) == [symbol |-> symbol, data |-> data]

SymX == <<1>>
SymY == <<2>>
SymEmpty == <<>>
SymLong == [i \in 1..(MAX_SYMBOL_LENGTH + 1) |-> 1]

\* the sampled instants of the wall clock
TimePoints ==
    {0, DedupWindow, DedupWindow + 1, 2 * DedupWindow,
     ALERT_COOLDOWN - 1, ALERT_COOLDOWN, ALERT_COOLDOWN + 5}

DistinctSymbols(prices) ==
    \A i, j \in 1..Len(prices) : prices[i].symbol = prices[j].symbol => i = j

-----------------------------------------------------------------------------
(* data_logger.py: the ledger *)

Row(symbol, data, current_time) ==
    [timestamp |-> current_time, symbol |-> symbol, price |-> data.price,
     change_24h |-> data.change_24h, asset_type |-> data.type]

\* SELECT COUNT(*) ... WHERE symbol = ? AND asset_type = ? AND timestamp BETWEEN ? AND ?
DuplicateCount(symbol, timestamp, asset_type) ==
    Cardinality({i \in 1..Len(db) :
        /\ db[i].symbol = symbol
        /\ db[i].asset_type = asset_type
        /\ db[i].timestamp >= timestamp - DedupWindow
        /\ db[i].timestamp <= timestamp + DedupWindow})

\* a dedup check that answers True once the key has any row
is_duplicate_AnyRow(symbol, timestamp, asset_type, queryOk) ==
    /\ queryOk
    /\ \E i \in 1..Len(db) : db[i].symbol = symbol /\ db[i].asset_type = asset_type

\* queryOk = FALSE: the query raised, the handler answers False
is_duplicate(symbol, timestamp, asset_type, queryOk) ==
    IF queryOk THEN DuplicateCount(symbol, timestamp, asset_type) > 0 ELSE FALSE

\* a ledger-side validation that forgets the asset type
DataLogger_validate_price_data_NoType(symbol, price_data) ==
    /\ symbol # <<>>
    /\ validate_price(price_data.price)
    /\ validate_change_percent(price_data.change_24h)

\* DataLogger._validate_price_data
DataLogger_validate_price_data(symbol, price_data) ==
    validate_price_data(symbol, price_data)

\* the loop of log_prices over prices.items(): the items that reach data_to_log
RECURSIVE DataToLog(_, _, _)
DataToLog(prices, current_time, queryOk) ==
    IF prices = <<>> THEN <<>>
    ELSE LET it == Head(prices)
             rest == DataToLog(Tail(prices), current_time, queryOk)
         IN  IF ~DataLogger_validate_price_data(it.symbol, it.data) THEN rest
             ELSE IF is_duplicate(it.symbol, current_time, it.data.type, queryOk) THEN rest
             ELSE <<it>> \o rest

\* the symbols that pass the validation step of log_prices
LogAdmitted(prices) ==
    {prices[i].symbol : i \in {j \in 1..Len(prices) :
        DataLogger_validate_price_data(prices[j].symbol, prices[j].data)}}

Rows(data, current_time) ==
    [i \in 1..Len(data) |-> Row(data[i].symbol, data[i].data, current_time)]

\* _log_to_sqlite: all rows are inserted and committed, or the exception is
\* caught, nothing is committed and 0 is returned
log_to_sqlite_count(data, ok) == IF ok THEN Len(data) ELSE 0
log_to_sqlite_rows(data, current_time, ok) ==
    IF ok THEN db \o Rows(data, current_time) ELSE db

\* _log_to_csv: the rows are appended, or the exception is caught and 0 returned
log_to_csv_count(data, ok) == IF ok THEN Len(data) ELSE 0
log_to_csv_rows(data, current_time, ok) ==
    IF ok THEN csv \o Rows(data, current_time) ELSE csv

\* _log_to_sqlite(data) when cursor.execute raises at entry k of data (k = 0:
\* at none).  The loop of INSERTs and conn.commit() share one try block: the
\* INSERTs of the entries before k ran in a transaction that is never
\* committed, and the handler returns 0.
log_to_sqlite_entry(data, current_time, k) ==
    LET executed == IF k = 0 THEN Rows(data, current_time)
                    ELSE SubSeq(Rows(data, current_time), 1, k - 1)
        committed == k = 0
    IN  [db |-> IF committed THEN db \o executed ELSE db,
         count |-> IF committed THEN Len(data) ELSE 0]

\* a log_prices that gives up on the flat log when the INSERT failed
WriteSinks_StopAfterSqliteFailure(data, current_time, sqliteOk, csvOk) ==
    [db |-> log_to_sqlite_rows(data, current_time, sqliteOk),
     csv |-> log_to_csv_rows(data, current_time, sqliteOk /\ csvOk),
     count |-> log_to_sqlite_count(data, sqliteOk)
               + log_to_csv_count(data, sqliteOk /\ csvOk)]

\* lines 153-160 of log_prices: both sinks are called in turn, whatever the
\* first returned, and the two counts are added
WriteSinks(data, current_time, sqliteOk, csvOk) ==
    [db |-> log_to_sqlite_rows(data, current_time, sqliteOk),
     csv |-> log_to_csv_rows(data, current_time, csvOk),
     count |-> log_to_sqlite_count(data, sqliteOk) + log_to_csv_count(data, csvOk)]

\* observed_at of the rows a write adds to the table (history only)
ObservedOf(data, sqliteOk) ==
    IF sqliteOk THEN [i \in 1..Len(data) |-> data[i].data.timestamp] ELSE <<>>

\* DataLogger.log_prices(prices): the new contents of both sinks, the returned
\* count and, as history, the rows of data_to_log and the symbols that passed
\* validation.  env tells which of the three accesses to the outside (the
\* dedup query, the INSERTs, the CSV append) succeed.
log_prices(prices, env) ==
    LET current_time == now
        data_to_log == DataToLog(prices, current_time, env.queryOk)
        w == WriteSinks(data_to_log, current_time, env.sqliteOk, env.csvOk)
    IN  IF prices = <<>> \/ data_to_log = <<>>
        THEN [db |-> db, csv |-> csv, observed |-> observed, count |-> 0,
              rows |-> <<>>, admitted |-> LogAdmitted(prices)]
        ELSE [db |-> w.db, csv |-> w.csv,
              observed |-> observed \o ObservedOf(data_to_log, env.sqliteOk),
              count |-> w.count, rows |-> Rows(data_to_log, current_time),
              admitted |-> LogAdmitted(prices)]

\* the elements of seq whose flag is set, in order
RECURSIVE Filter(_, _)
Filter(seq, flags) ==
    IF seq = <<>> THEN <<>>
    ELSE (IF Head(flags) THEN <<Head(seq)>> ELSE <<>>) \o Filter(Tail(seq), Tail(flags))

\* a validation of the day count that lets 0 through
CleanupDays_AllowZero(days) ==
    IF ~IsInt(days) \/ Less(days, 0) \/ Greater(days, MAX_CLEANUP_DAYS)
    THEN DEFAULT_CLEANUP_DAYS ELSE days.v

\* the day count cleanup_old_data works with (lines 331-332)
CleanupDays(days) ==
    IF ~IsInt(days) \/ LessEq(days, 0) \/ Greater(days, MAX_CLEANUP_DAYS)
    THEN DEFAULT_CLEANUP_DAYS ELSE days.v

\* DELETE FROM price_data WHERE timestamp < cutoff_date: the rows that stay
Kept(days) ==
    [i \in 1..Len(db) |-> ~(db[i].timestamp < now - CleanupDays(days) * Day)]

\* DataLogger.cleanup_old_data(days): the table afterwards, the rowcount it
\* logs and what it returns (the method has no return statement).  ok = FALSE:
\* the DELETE raised, the handler logs and nothing is committed.
cleanup_old_data(days, ok) ==
    IF ok
    THEN [db |-> Filter(db, Kept(days)), observed |-> Filter(observed, Kept(days)),
          deleted_count |-> Len(db) - Len(Filter(db, Kept(days))), value |-> None]
    ELSE [db |-> db, observed |-> observed, deleted_count |-> 0, value |-> None]

\* DataLogger.get_asset_history(symbol, hours): the rows of the symbol stamped
\* in the last hours, oldest first (the table is in time order: rows are
\* appended with the clock's reading).  ok = FALSE: the query raised and an
\* empty frame is returned.
HistoryHours(hours) ==
    IF ~IsInt(hours) \/ LessEq(hours, 0) \/ Greater(hours, MAX_HISTORY_HOURS)
    THEN DEFAULT_HISTORY_HOURS ELSE hours.v
get_asset_history(symbol, hours, ok) ==
    IF symbol = <<>> \/ ~ok THEN <<>>
    ELSE Filter(db, [i \in 1..Len(db) |->
                       /\ db[i].symbol = symbol
                       /\ db[i].timestamp >= now - HistoryHours(hours) * Hour
                       /\ db[i].timestamp <= now])

\* a limit check that lets any positive count through
LatestLimit_NoMax(limit) ==
    IF ~IsInt(limit) \/ LessEq(limit, 0) THEN DEFAULT_LIMIT ELSE limit.v

\* the LIMIT get_latest_prices hands to its query (lines 220-221)
LatestLimit(limit) ==
    IF ~IsInt(limit) \/ LessEq(limit, 0) \/ Greater(limit, MAX_LIMIT)
    THEN DEFAULT_LIMIT ELSE limit.v

Min(a, b) == IF a < b THEN a ELSE b

\* ORDER BY timestamp DESC LIMIT n: the sets of rows (by position in the
\* table) the query may select; among rows of equal timestamp the choice is
\* the database's
LatestPicks(n) ==
    {pick \in SUBSET (1..Len(db)) :
        /\ Cardinality(pick) = Min(n, Len(db))
        /\ \A i \in pick, j \in (1..Len(db)) \ pick : db[i].timestamp >= db[j].timestamp}

\* the rows at the positions pick, latest first (the table is in time order)
RECURSIVE Latest(_, _)
Latest(pick, i) ==
    IF i = 0 THEN <<>>
    ELSE (IF i \in pick THEN <<db[i]>> ELSE <<>>) \o Latest(pick, i - 1)

\* DataLogger.get_latest_prices(limit) when the query selects pick.
\* ok = FALSE: the query raised and an empty frame is returned.
get_latest_prices(limit, pick, ok) ==
    IF ok THEN Latest(pick, Len(db)) ELSE <<>>

-----------------------------------------------------------------------------
(* alert_system.py: the alert engine *)

EmptyMap == [s \in {} |-> 0]
\* an assignment that forgets the other keys
Put_Only(map, key, value) == [k \in {key} |-> value]

\* map[key] = value
Put(map, key, value) ==
    [k \in DOMAIN map \cup {key} |-> IF k = key THEN value ELSE map[k]]

AlertSystem_validate_price_data(symbol, price_data) ==
    validate_price_data(symbol, price_data)

\* a comparison that misses the threshold itself
ExceedsThreshold_Strict(change_24h) == GreaterNum(AbsVal(change_24h), threshold)

\* abs(change_24h) >= self.threshold
ExceedsThreshold(change_24h) == GreaterEqNum(AbsVal(change_24h), threshold)

\* a cooldown check that never suppresses
can_send_alert_NoCooldown(la, symbol, current_time) == TRUE

\* a cooldown check that still suppresses at exactly the cooldown
can_send_alert_Exclusive(la, symbol, current_time) ==
    IF symbol \notin DOMAIN la THEN TRUE
    ELSE current_time - la[symbol] > cooldown

\* _can_send_alert, reading the last_alerts map la
can_send_alert(la, symbol, current_time) ==
    IF symbol \notin DOMAIN la THEN TRUE
    ELSE current_time - la[symbol] >= cooldown

\* the alert dict (its rendered 'message' is left out)
Alert(symbol, data, current_time) ==
    [symbol |-> symbol, price |-> data.price, change_24h |-> data.change_24h,
     threshold |-> threshold, timestamp |-> current_time, type |-> data.type]

\* a loop that stamps last_alerts on a suppressed crossing as well
RECURSIVE CheckLoop_StampSuppressed(_, _, _)
CheckLoop_StampSuppressed(prices, current_time, acc) ==
    IF prices = <<>> THEN acc
    ELSE LET it == Head(prices)
             seen == [acc EXCEPT !.checked = Append(@, it)]
         IN  IF ~AlertSystem_validate_price_data(it.symbol, it.data)
             THEN CheckLoop_StampSuppressed(Tail(prices), current_time, acc)
             ELSE IF ~ExceedsThreshold(it.data.change_24h)
             THEN CheckLoop_StampSuppressed(Tail(prices), current_time, seen)
             ELSE IF can_send_alert(acc.last_alerts, it.symbol, current_time)
             THEN CheckLoop_StampSuppressed(Tail(prices), current_time,
                    [seen EXCEPT
                       !.alerts = Append(@, Alert(it.symbol, it.data, current_time)),
                       !.last_alerts = Put(@, it.symbol, current_time)])
             ELSE CheckLoop_StampSuppressed(Tail(prices), current_time,
                    [seen EXCEPT !.last_alerts = Put(@, it.symbol, current_time)])

\* the loop of check_price_alerts over prices.items(); acc carries the alerts
\* list, self.last_alerts and, as history, the items that passed validation
RECURSIVE CheckLoop(_, _, _)
CheckLoop(prices, current_time, acc) ==
    IF prices = <<>> THEN acc
    ELSE LET it == Head(prices)
             seen == [acc EXCEPT !.checked = Append(@, it)]
         IN  IF ~AlertSystem_validate_price_data(it.symbol, it.data)
             THEN CheckLoop(Tail(prices), current_time, acc)
             ELSE IF /\ ExceedsThreshold(it.data.change_24h)
                     /\ can_send_alert(acc.last_alerts, it.symbol, current_time)
             THEN CheckLoop(Tail(prices), current_time,
                    [seen EXCEPT
                       !.alerts = Append(@, Alert(it.symbol, it.data, current_time)),
                       !.last_alerts = Put(@, it.symbol, current_time)])
             ELSE CheckLoop(Tail(prices), current_time, seen)

check_price_alerts(prices) ==
    CheckLoop(prices, now, [alerts |-> <<>>, last_alerts |-> last_alerts, checked |-> <<>>])

\* What a channel meets when it is used (chan): "ok"; "config", its
\* configuration is incomplete; "http", the webhook answers with a status
\* that raise_for_status rejects; "error", any other exception.  A send_*
\* method answers with a delivery: whether the channel was attempted, how it
\* ended, and whether an exception left the method.
Delivery(channel, attempted, outcome, raised) ==
    [channel |-> channel, attempted |-> attempted, outcome |-> outcome, raised |-> raised]

\* send_terminal_alert: the prints are inside try/except Exception
send_terminal_alert(chan) ==
    IF chan.terminal = "ok" THEN Delivery("terminal", TRUE, "sent", FALSE)
    ELSE Delivery("terminal", TRUE, "failed", FALSE)

\* an email channel whose exceptions leave the method
send_email_alert_Uncaught(chan) ==
    IF ~chan.email_enabled THEN Delivery("email", FALSE, "disabled", FALSE)
    ELSE IF chan.email = "config" THEN Delivery("email", TRUE, "skipped", FALSE)
    ELSE IF chan.email = "ok" THEN Delivery("email", TRUE, "sent", FALSE)
    ELSE Delivery("email", TRUE, "failed", TRUE)

\* send_email_alert: returns at once when disabled; an invalid configuration
\* is a warning, every exception is caught and logged
send_email_alert(chan) ==
    IF ~chan.email_enabled THEN Delivery("email", FALSE, "disabled", FALSE)
    ELSE IF chan.email = "config" THEN Delivery("email", TRUE, "skipped", FALSE)
    ELSE IF chan.email = "ok" THEN Delivery("email", TRUE, "sent", FALSE)
    ELSE Delivery("email", TRUE, "failed", FALSE)

\* send_webhook_alert: as the email channel; raise_for_status turns a
\* rejected status into a RequestException, which is caught too
send_webhook_alert(chan) ==
    IF ~chan.webhook_enabled THEN Delivery("webhook", FALSE, "disabled", FALSE)
    ELSE IF chan.webhook = "config" THEN Delivery("webhook", TRUE, "skipped", FALSE)
    ELSE IF chan.webhook = "ok" THEN Delivery("webhook", TRUE, "sent", FALSE)
    ELSE Delivery("webhook", TRUE, "failed", FALSE)

\* the three calls of process_alerts for one alert, in order: an exception
\* that leaves a send_* method ends the sequence (process_alerts has no
\* handler of its own)
SendAll(chan) ==
    LET t == send_terminal_alert(chan)
        e == send_email_alert(chan)
        w == send_webhook_alert(chan)
    IN  IF t.raised THEN <<t>>
        ELSE IF e.raised THEN <<t, e>>
        ELSE <<t, e, w>>

\* the loop of process_alerts over the alerts: the deliveries, each with the
\* position of its alert, up to the first exception that leaves a channel
RECURSIVE DispatchLoop(_, _, _)
DispatchLoop(alerts, i, chan) ==
    IF i > Len(alerts) THEN <<>>
    ELSE LET sent == [k \in 1..Len(SendAll(chan)) |->
                         [alert |-> i, symbol |-> alerts[i].symbol,
                          delivery |-> SendAll(chan)[k]]]
         IN  IF sent[Len(sent)].delivery.raised THEN sent
             ELSE sent \o DispatchLoop(alerts, i + 1, chan)

\* AlertSystem.process_alerts(prices)
process_alerts(prices, chan) ==
    LET a == check_price_alerts(prices)
        deliveries == DispatchLoop(a.alerts, 1, chan)
    IN  [alerts |-> a.alerts, last_alerts |-> a.last_alerts, checked |-> a.checked,
         deliveries |-> deliveries,
         raised |-> \E k \in 1..Len(deliveries) : deliveries[k].delivery.raised]

\* update_threshold: the value self.threshold holds afterwards
update_threshold(new_threshold) ==
    IF ~IsIntOrFloat(new_threshold) \/ LessEq(new_threshold, 0) THEN threshold
    ELSE Float(new_threshold)

\* update_cooldown: the value self.cooldown holds afterwards (True is kept as
\* it is and counts as 1 in every later comparison)
update_cooldown(new_cooldown) ==
    IF ~IsInt(new_cooldown) \/ LessEq(new_cooldown, 0) THEN cooldown
    ELSE new_cooldown.v

\* statistics that still count an alert exactly one cooldown old
get_alert_stats_Inclusive(la, current_time) ==
    [total_alerts_sent |-> Cardinality(DOMAIN la),
     active_alerts |-> Cardinality({s \in DOMAIN la : current_time - la[s] <= cooldown}),
     threshold |-> threshold,
     cooldown_seconds |-> cooldown]

\* get_alert_stats at current_time, reading the last_alerts map la (the two
\* channel flags of the dict are left out)
get_alert_stats(la, current_time) ==
    [total_alerts_sent |-> Cardinality(DOMAIN la),
     active_alerts |-> Cardinality({s \in DOMAIN la : current_time - la[s] < cooldown}),
     threshold |-> threshold,
     cooldown_seconds |-> cooldown]

-----------------------------------------------------------------------------
(* price_scraper.py: the pacing of the requests *)

\* self.rate_limit_delay: 1.2 s
rate_limit_delay == Minute \div COINGECKO_RATE_LIMIT

\* a _rate_limit that stamps the time it was entered
rate_limit_StampOnEntry(over) ==
    LET current_time == clock
        time_since_last == current_time - last_request_time
        sleep_time == IF time_since_last < rate_limit_delay
                      THEN rate_limit_delay - time_since_last ELSE 0
        woke == IF sleep_time > 0 THEN current_time + sleep_time + over ELSE current_time
    IN  [slept |-> sleep_time, clock |-> woke, last_request_time |-> current_time]

\* PriceScraper._rate_limit(): how long it sleeps, what the clock reads when
\* it returns and the last_request_time it leaves.  time.sleep(d) returns
\* after d or, by `over`, later.
rate_limit(over) ==
    LET current_time == clock
        time_since_last == current_time - last_request_time
        sleep_time == IF time_since_last < rate_limit_delay
                      THEN rate_limit_delay - time_since_last ELSE 0
        woke == IF sleep_time > 0 THEN current_time + sleep_time + over ELSE current_time
    IN  [slept |-> sleep_time, clock |-> woke, last_request_time |-> woke]

-----------------------------------------------------------------------------
(* dashboard.py: the administrative endpoints.  Every endpoint is wrapped  *)
(* in rate_limit, which empties request_counts on each request and so lets *)
(* every request through.                                                  *)

\* the body request.get_json() returns: None, or a dict with one field
\* (Absent when the dict lacks the key)
JsonBody(field) == [t |-> "dict", field |-> field]
\* data.get(key, default)
Get(data, default) == IF data.field = Absent THEN default ELSE data.field

\* float(value); Raised stands for the ValueError or TypeError
Raised == [t |-> "raised", v |-> 0]
ToFloat(value) ==
    IF value.t \in {"int", "bool", "float", "numstr"} THEN F(value.v)
    ELSE IF value.t \in {"nan", "nanstr"} THEN Num("nan", 0)
    ELSE Raised

\* a check that forgets the upper bound
validate_numeric_input_NoMax(value, min_val, max_val) ==
    LET num_val == ToFloat(value)
    IN  IF num_val = Raised THEN None
        ELSE IF Less(num_val, min_val) THEN None
        ELSE num_val

validate_numeric_input(value, min_val, max_val) ==
    LET num_val == ToFloat(value)
    IN  IF num_val = Raised THEN None
        ELSE IF Less(num_val, min_val) THEN None
        ELSE IF Greater(num_val, max_val) THEN None
        ELSE num_val

\* int(x) of a float: nan raises ValueError
ToInt(x) == IF x.t = "nan" THEN Raised ELSE Num("int", x.v)

\* rate_limit's decorated_function up to the call of the endpoint, for a
\* request of client_ip at current_time, with request_counts as rc: the dict
\* is cleared, the client's entry is created, renewed once its reset_time has
\* passed, and counted up; limited: the request is answered with 429
decorated_function(rc, client_ip, current_time) ==
    LET fresh == [count |-> 0, reset_time |-> current_time + RequestWindow]
        \* request_counts.clear(): no key of rc is left
        cleared == [k \in DOMAIN rc \ DOMAIN rc |-> rc[k]]
        created == IF client_ip \notin DOMAIN cleared
                   THEN Put(cleared, client_ip, fresh) ELSE cleared
        renewed == IF current_time > created[client_ip].reset_time
                   THEN Put(created, client_ip, fresh) ELSE created
        counted == [renewed EXCEPT ![client_ip].count = @ + 1]
    IN  [request_counts |-> counted,
         limited |-> counted[client_ip].count > MAX_REQUESTS_PER_MINUTE]

\* the symbols of config.CRYPTO_ASSETS + config.STOCK_ASSETS
ConfiguredAssets == {SymX, SymY}
\* str.lower(): code 3 is the upper-case form of code 1
ToLower(symbol) == [i \in DOMAIN symbol |-> IF symbol[i] = 3 THEN 1 ELSE symbol[i]]
dashboard_validate_symbol(symbol) ==
    IF symbol = <<>> THEN FALSE
    ELSE ToLower(symbol) \in {ToLower(a) : a \in ConfiguredAssets}

\* api_update_threshold: the status answered and the engine's threshold afterwards
api_update_threshold(data) ==
    IF data = None THEN [status |-> 400, threshold |-> threshold]
    ELSE LET new_threshold == Get(data, None)
             value == validate_numeric_input(new_threshold, MIN_THRESHOLD, MAX_THRESHOLD)
         IN  IF value = None THEN [status |-> 400, threshold |-> threshold]
             ELSE [status |-> 200, threshold |-> update_threshold(value)]

\* api_update_cooldown: int(cooldown) of nan raises and is answered with 500
api_update_cooldown(data) ==
    IF data = None THEN [status |-> 400, cooldown |-> cooldown]
    ELSE LET new_cooldown == Get(data, None)
             value == validate_numeric_input(new_cooldown, MIN_COOLDOWN, MAX_COOLDOWN)
         IN  IF value = None THEN [status |-> 400, cooldown |-> cooldown]
             ELSE IF ToInt(value) = Raised THEN [status |-> 500, cooldown |-> cooldown]
             ELSE [status |-> 200, cooldown |-> update_cooldown(ToInt(value))]

\* api_cleanup: the status, whether cleanup_old_data was called and with what
api_cleanup(data) ==
    IF data = None THEN [status |-> 400, invoked |-> FALSE, days |-> None]
    ELSE LET days == validate_numeric_input(Get(data, Num("int", CleanupDaysDefault)),
                                            MIN_CLEANUP_DAYS, MAX_CLEANUP_DAYS_INPUT)
         IN  IF days = None THEN [status |-> 400, invoked |-> FALSE, days |-> None]
             ELSE IF ToInt(days) = Raised THEN [status |-> 500, invoked |-> FALSE, days |-> None]
             ELSE [status |-> 200, invoked |-> TRUE, days |-> ToInt(days)]

\* request.args.get('hours', default, type=int): the default when the
\* parameter is missing or is not the text of an int
HoursArg(arg) == IF arg.t = "numstr" THEN Num("int", arg.v) ELSE Num("int", CHART_HISTORY_HOURS)

\* api_chart up to the call of get_asset_history: whether it is reached and
\* with what hour count
api_chart(symbol, arg) ==
    IF ~dashboard_validate_symbol(symbol) THEN [status |-> 400, invoked |-> FALSE, hours |-> None]
    ELSE LET hours_raw == HoursArg(arg)
             checked == validate_numeric_input(hours_raw, MinChartHours, MaxChartHours)
             hours == IF checked = None THEN Num("int", CHART_HISTORY_HOURS) ELSE checked
         IN  [status |-> 200, invoked |-> TRUE, hours |-> ToInt(hours)]

-----------------------------------------------------------------------------
(* State machine *)

\* two threads of the process that call into the shared module-level
\* instances data_logger and alert_system (the scheduler runs every job on a
\* thread of its pool); neither class holds a lock
Workers == {"w1", "w2"}
\* a thread that is in no call
Idle == [pc |-> "idle"]
\* the locals of a call in progress: where it stands (pc), the batch, the
\* position i of its loop, its current_time, data_to_log and alerts
Locals(pc, prices, i, current_time, data_to_log, alerts) ==
    [pc |-> pc, prices |-> prices, i |-> i, current_time |-> current_time,
     data_to_log |-> data_to_log, alerts |-> alerts]

NoEnv == [queryOk |-> TRUE, sqliteOk |-> TRUE, csvOk |-> TRUE]
Envs == [queryOk : BOOLEAN, sqliteOk : BOOLEAN, csvOk : BOOLEAN]
Faulty(env) == ~(env.queryOk /\ env.sqliteOk /\ env.csvOk)

Call(op, prices, env) == [op |-> op, prices |-> prices, env |-> env]
\* before: last_alerts as the operation found it
NoRet == [count |-> 0, rows |-> <<>>, admitted |-> {}, alerts |-> <<>>, checked |-> <<>>,
          before |-> EmptyMap]

Init ==
    /\ now = 0
    /\ db = <<>>
    /\ csv = <<>>
    /\ observed = <<>>
    /\ last_alerts = EmptyMap
    /\ threshold = F(ALERT_THRESHOLD)
    /\ cooldown = ALERT_COOLDOWN
    /\ request_counts = EmptyMap
    /\ clock = StartClock
    /\ last_request_time = 0
    /\ threads = [w \in Workers |-> Idle]
    /\ faults = 0
    /\ call = Call("init", <<>>, NoEnv)
    /\ ret = NoRet

\* the wall clock moves on between operations
Tick(t) ==
    /\ t > now
    /\ now' = t
    /\ call' = Call("tick", <<>>, NoEnv)
    /\ ret' = NoRet
    /\ UNCHANGED <<db, csv, observed, last_alerts, threshold, cooldown, faults>>
    /\ UNCHANGED <<request_counts, clock, last_request_time, threads>>

\* the ledger part of a step that calls log_prices(prices) under env
LedgerStep(r, env) ==
    /\ Faulty(env) => faults < MaxFaults
    /\ Len(r.db) <= MaxRows
    /\ Len(r.csv) <= MaxRows
    /\ faults' = IF Faulty(env) THEN faults + 1 ELSE faults
    /\ db' = r.db
    /\ csv' = r.csv
    /\ observed' = r.observed

\* data_logger.log_prices(prices)
LogPrices(prices, env) ==
    LET r == log_prices(prices, env)
    IN  /\ LedgerStep(r, env)
        /\ call' = Call("log_prices", prices, env)
        /\ ret' = [NoRet EXCEPT !.count = r.count, !.rows = r.rows,
                                !.admitted = r.admitted]
        /\ UNCHANGED <<now, last_alerts, threshold, cooldown>>
        /\ UNCHANGED <<request_counts, clock, last_request_time, threads>>

\* data_logger.log_prices(prices) when the INSERT of entry k of data_to_log
\* raises; the dedup query and the CSV append succeed
LogPricesEntryFault(prices, k) ==
    LET current_time == now
        data_to_log == DataToLog(prices, current_time, TRUE)
        sq == log_to_sqlite_entry(data_to_log, current_time, k)
        r == [db |-> sq.db,
              csv |-> log_to_csv_rows(data_to_log, current_time, TRUE),
              observed |-> observed]
        env == [queryOk |-> TRUE, sqliteOk |-> FALSE, csvOk |-> TRUE, failed |-> k]
    IN  /\ k \in 1..Len(data_to_log)
        /\ LedgerStep(r, env)
        /\ call' = Call("log_prices", prices, env)
        /\ ret' = [NoRet EXCEPT
                      !.count = sq.count + log_to_csv_count(data_to_log, TRUE),
                      !.rows = Rows(data_to_log, current_time),
                      !.admitted = LogAdmitted(prices)]
        /\ UNCHANGED <<now, last_alerts, threshold, cooldown>>
        /\ UNCHANGED <<request_counts, clock, last_request_time, threads>>

\* alert_system.check_price_alerts(prices)
CheckPriceAlerts(prices) ==
    LET a == check_price_alerts(prices)
    IN  /\ last_alerts' = a.last_alerts
        /\ call' = Call("check_price_alerts", prices, NoEnv)
        /\ ret' = [NoRet EXCEPT !.alerts = a.alerts, !.checked = a.checked,
                                !.before = last_alerts]
        /\ UNCHANGED <<now, db, csv, observed, threshold, cooldown, faults>>
        /\ UNCHANGED <<request_counts, clock, last_request_time, threads>>

\* PriceTracker._update_crypto_prices / _update_stock_prices on a fetched
\* batch: log_prices, then process_alerts, when the batch is not empty
UpdatePrices(prices, env) ==
    LET r == log_prices(prices, env)
        a == check_price_alerts(prices)
    IN  /\ call' = Call("update_prices", prices, env)
        /\ IF prices # <<>>
           THEN /\ LedgerStep(r, env)
                /\ last_alerts' = a.last_alerts
                /\ ret' = [count |-> r.count, rows |-> r.rows, admitted |-> r.admitted,
                           alerts |-> a.alerts, checked |-> a.checked,
                           before |-> last_alerts]
           ELSE /\ ~Faulty(env)
                /\ ret' = NoRet
                /\ UNCHANGED <<db, csv, observed, last_alerts, faults>>
        /\ UNCHANGED <<now, threshold, cooldown, request_counts, clock, last_request_time, threads>>

\* SecurityConfig.validate_price(price) on its own
ValidatePrice(price) ==
    /\ call' = [op |-> "validate_price", arg |-> price]
    /\ ret' = [ok |-> validate_price(price)]
    /\ UNCHANGED <<now, db, csv, observed, last_alerts, threshold, cooldown, faults>>
    /\ UNCHANGED <<request_counts, clock, last_request_time, threads>>

\* SecurityConfig.validate_change_percent(change) on its own
ValidateChangePercent(change) ==
    /\ call' = [op |-> "validate_change_percent", arg |-> change]
    /\ ret' = [ok |-> validate_change_percent(change)]
    /\ UNCHANGED <<now, db, csv, observed, last_alerts, threshold, cooldown, faults>>
    /\ UNCHANGED <<request_counts, clock, last_request_time, threads>>

\* SecurityConfig.validate_symbol(symbol) on its own
ValidateSymbol(symbol) ==
    /\ call' = [op |-> "validate_symbol", arg |-> symbol]
    /\ ret' = [ok |-> validate_symbol(symbol)]
    /\ UNCHANGED <<now, db, csv, observed, last_alerts, threshold, cooldown, faults>>
    /\ UNCHANGED <<request_counts, clock, last_request_time, threads>>

\* alert_system.process_alerts(prices) with the channels behaving as chan says
ProcessAlerts(prices, chan) ==
    LET r == process_alerts(prices, chan)
    IN  /\ last_alerts' = r.last_alerts
        /\ call' = [op |-> "process_alerts", prices |-> prices, chan |-> chan]
        /\ ret' = [alerts |-> r.alerts, checked |-> r.checked, before |-> last_alerts,
                   deliveries |-> r.deliveries, raised |-> r.raised]
        /\ UNCHANGED <<now, db, csv, observed, threshold, cooldown, faults>>
        /\ UNCHANGED <<request_counts, clock, last_request_time, threads>>

\* the three send_* methods called for one alert
SendAlert(chan) ==
    /\ call' = [op |-> "send_alert", chan |-> chan]
    /\ ret' = [deliveries |-> SendAll(chan)]
    /\ UNCHANGED <<now, db, csv, observed, last_alerts, threshold, cooldown, faults>>
    /\ UNCHANGED <<request_counts, clock, last_request_time, threads>>

\* alert_system.update_threshold(new_threshold)
UpdateThreshold(new_threshold) ==
    /\ threshold' = update_threshold(new_threshold)
    /\ call' = [op |-> "update_threshold", arg |-> new_threshold]
    /\ ret' = NoRet
    /\ UNCHANGED <<now, db, csv, observed, last_alerts, cooldown, faults>>
    /\ UNCHANGED <<request_counts, clock, last_request_time, threads>>

\* alert_system.update_cooldown(new_cooldown)
UpdateCooldown(new_cooldown) ==
    /\ cooldown' = update_cooldown(new_cooldown)
    /\ call' = [op |-> "update_cooldown", arg |-> new_cooldown]
    /\ ret' = NoRet
    /\ UNCHANGED <<now, db, csv, observed, last_alerts, threshold, faults>>
    /\ UNCHANGED <<request_counts, clock, last_request_time, threads>>

\* alert_system.get_alert_stats()
GetAlertStats ==
    /\ call' = [op |-> "get_alert_stats"]
    /\ ret' = get_alert_stats(last_alerts, now)
    /\ UNCHANGED <<now, db, csv, observed, last_alerts, threshold, cooldown, faults>>
    /\ UNCHANGED <<request_counts, clock, last_request_time, threads>>

\* data_logger.cleanup_old_data(days); before: the table and the observation
\* times as the call found them
CleanupOldData(days, ok) ==
    LET r == cleanup_old_data(days, ok)
    IN  /\ ~ok => faults < MaxFaults
        /\ faults' = IF ok THEN faults ELSE faults + 1
        /\ db' = r.db
        /\ observed' = r.observed
        /\ call' = [op |-> "cleanup_old_data", days |-> days, ok |-> ok]
        /\ ret' = [value |-> r.value, deleted_count |-> r.deleted_count,
                   before |-> db, observed |-> observed]
        /\ UNCHANGED <<now, csv, last_alerts, threshold, cooldown>>
        /\ UNCHANGED <<request_counts, clock, last_request_time, threads>>

\* data_logger.get_latest_prices(limit)
GetLatestPrices(limit, pick, ok) ==
    /\ pick \in LatestPicks(LatestLimit(limit))
    /\ call' = [op |-> "get_latest_prices", limit |-> limit, ok |-> ok]
    /\ ret' = [limit |-> LatestLimit(limit), picked |-> pick,
               rows |-> get_latest_prices(limit, pick, ok)]
    /\ UNCHANGED <<now, db, csv, observed, last_alerts, threshold, cooldown, faults>>
    /\ UNCHANGED <<request_counts, clock, last_request_time, threads>>

\* data_logger.get_asset_history(symbol, hours)
GetAssetHistory(symbol, hours, ok) ==
    /\ call' = [op |-> "get_asset_history", symbol |-> symbol, hours |-> hours, ok |-> ok]
    /\ ret' = [rows |-> get_asset_history(symbol, hours, ok)]
    /\ UNCHANGED <<now, db, csv, observed, last_alerts, threshold, cooldown, faults>>
    /\ UNCHANGED <<request_counts, clock, last_request_time, threads>>

\* A call on a thread, statement by statement.  Each step is one access to
\* the shared state (a query, a transaction, an append, a read or a write of
\* last_alerts); the other thread may run between any two of them.

\* thread w enters log_prices(prices): current_time = datetime.now()
BeginLogPrices(w, prices) ==
    /\ threads[w].pc = "idle"
    /\ prices # <<>>
    /\ threads' = [threads EXCEPT ![w] =
                      Locals("check_duplicate", prices, 1, now, <<>>, <<>>)]
    /\ UNCHANGED <<now, db, csv, observed, last_alerts, threshold, cooldown, faults>>
    /\ UNCHANGED <<request_counts, clock, last_request_time, call, ret>>

\* one turn of the loop of log_prices: validation and the dedup query
CheckDuplicate(w) ==
    LET t == threads[w]
        it == t.prices[t.i]
        keep == /\ DataLogger_validate_price_data(it.symbol, it.data)
                /\ ~is_duplicate(it.symbol, t.current_time, it.data.type, TRUE)
        data_to_log == IF keep THEN Append(t.data_to_log, it) ELSE t.data_to_log
        pc == IF t.i < Len(t.prices) THEN "check_duplicate"
              ELSE IF data_to_log = <<>> THEN "done" ELSE "write_sqlite"
    IN  /\ t.pc = "check_duplicate"
        /\ threads' = [threads EXCEPT ![w] =
                          [t EXCEPT !.pc = pc, !.i = t.i + 1, !.data_to_log = data_to_log]]
        /\ UNCHANGED <<now, db, csv, observed, last_alerts, threshold, cooldown, faults>>
        /\ UNCHANGED <<request_counts, clock, last_request_time, call, ret>>

\* _log_to_sqlite(data_to_log): the INSERTs and the commit
WriteSqlite(w) ==
    LET t == threads[w]
    IN  /\ t.pc = "write_sqlite"
        /\ Len(db) + Len(t.data_to_log) <= MaxRows
        /\ db' = log_to_sqlite_rows(t.data_to_log, t.current_time, TRUE)
        /\ observed' = observed \o ObservedOf(t.data_to_log, TRUE)
        /\ threads' = [threads EXCEPT ![w] = [t EXCEPT !.pc = "write_csv"]]
        /\ UNCHANGED <<now, csv, last_alerts, threshold, cooldown, faults>>
        /\ UNCHANGED <<request_counts, clock, last_request_time, call, ret>>

\* _log_to_csv(data_to_log), after which log_prices returns
WriteCsv(w) ==
    LET t == threads[w]
    IN  /\ t.pc = "write_csv"
        /\ Len(csv) + Len(t.data_to_log) <= MaxRows
        /\ csv' = log_to_csv_rows(t.data_to_log, t.current_time, TRUE)
        /\ threads' = [threads EXCEPT ![w] = [t EXCEPT !.pc = "done"]]
        /\ UNCHANGED <<now, db, observed, last_alerts, threshold, cooldown, faults>>
        /\ UNCHANGED <<request_counts, clock, last_request_time, call, ret>>

\* thread w enters check_price_alerts(prices): current_time = datetime.now()
BeginCheckPriceAlerts(w, prices) ==
    /\ threads[w].pc = "idle"
    /\ prices # <<>>
    /\ threads' = [threads EXCEPT ![w] =
                      Locals("check_cooldown", prices, 1, now, <<>>, <<>>)]
    /\ UNCHANGED <<now, db, csv, observed, last_alerts, threshold, cooldown, faults>>
    /\ UNCHANGED <<request_counts, clock, last_request_time, call, ret>>

\* one turn of the loop of check_price_alerts up to the answer of
\* _can_send_alert (lines 44-56)
CheckCooldown(w) ==
    LET t == threads[w]
        it == t.prices[t.i]
        emit == /\ AlertSystem_validate_price_data(it.symbol, it.data)
                /\ ExceedsThreshold(it.data.change_24h)
                /\ can_send_alert(last_alerts, it.symbol, t.current_time)
        pc == IF emit THEN "emit"
              ELSE IF t.i < Len(t.prices) THEN "check_cooldown" ELSE "done"
    IN  /\ t.pc = "check_cooldown"
        /\ threads' = [threads EXCEPT ![w] =
                          [t EXCEPT !.pc = pc, !.i = IF emit THEN t.i ELSE t.i + 1]]
        /\ UNCHANGED <<now, db, csv, observed, last_alerts, threshold, cooldown, faults>>
        /\ UNCHANGED <<request_counts, clock, last_request_time, call, ret>>

\* the rest of the turn: the alert is built and appended and
\* self.last_alerts[symbol] = current_time (lines 57-69)
EmitAlert(w) ==
    LET t == threads[w]
        it == t.prices[t.i]
    IN  /\ t.pc = "emit"
        /\ last_alerts' = Put(last_alerts, it.symbol, t.current_time)
        /\ threads' = [threads EXCEPT ![w] =
                          [t EXCEPT !.pc = IF t.i < Len(t.prices) THEN "check_cooldown"
                                           ELSE "done",
                                    !.i = t.i + 1,
                                    !.alerts = Append(t.alerts,
                                                  Alert(it.symbol, it.data, t.current_time))]]
        /\ UNCHANGED <<now, db, csv, observed, threshold, cooldown, faults>>
        /\ UNCHANGED <<request_counts, clock, last_request_time, call, ret>>

\* the call returns and the thread is free again
Return(w) ==
    /\ threads[w].pc = "done"
    /\ threads' = [threads EXCEPT ![w] = Idle]
    /\ UNCHANGED <<now, db, csv, observed, last_alerts, threshold, cooldown, faults>>
    /\ UNCHANGED <<request_counts, clock, last_request_time, call, ret>>

\* time passes on the scraper's clock between two requests
Advance ==
    /\ clock < StartClock + ClockHorizon
    /\ clock' = clock + 1
    /\ UNCHANGED <<now, db, csv, observed, last_alerts, threshold, cooldown, faults>>
    /\ UNCHANGED <<request_counts, last_request_time, threads, call, ret>>

\* price_scraper._rate_limit(); previous: the clock's reading when the call
\* before this one returned (None for the first call)
RateLimit(over) ==
    LET r == rate_limit(over)
    IN  /\ r.clock <= StartClock + ClockHorizon
        /\ clock' = r.clock
        /\ last_request_time' = r.last_request_time
        /\ call' = [op |-> "rate_limit", entered |-> clock]
        /\ ret' = [slept |-> r.slept, returned |-> r.clock,
                   previous |-> IF call.op = "rate_limit" THEN Num("float", ret.returned)
                                ELSE None]
        /\ UNCHANGED <<now, db, csv, observed, last_alerts, threshold, cooldown, faults>>
        /\ UNCHANGED <<request_counts, threads>>

\* An ingestion cycle (_update_crypto_prices / _update_stock_prices) on a
\* thread of the scheduler, call by call.

\* `if prices:` after the fetch: a cycle that would evaluate without recording
AfterFetch_SkipLog(prices) == IF prices = <<>> THEN "end" ELSE "alert"

\* `if prices:` after the fetch (lines 131 and 151)
AfterFetch(prices) == IF prices = <<>> THEN "end" ELSE "log"

\* a cycle that evaluates only what was recorded
AfterLog_OnlyWhenLogged(logged_count) == IF logged_count = 0 THEN "end" ELSE "alert"

\* after log_prices has returned its count, process_alerts is the next
\* statement (lines 133-137)
AfterLog(logged_count) == "alert"

\* a cycle without its handler
update_prices_except_Reraise(raised) == IF raised THEN "raised" ELSE "completed"

\* try/except Exception around the whole cycle: the error is logged
update_prices_except(raised) == IF raised THEN "error_logged" ELSE "completed"

\* the scheduler calls the job
StartCycle(w) ==
    /\ threads[w].pc = "idle"
    /\ threads' = [threads EXCEPT ![w] = [pc |-> "fetch"]]
    /\ UNCHANGED <<now, db, csv, observed, last_alerts, threshold, cooldown, faults>>
    /\ UNCHANGED <<request_counts, clock, last_request_time, call, ret>>

\* get_crypto_prices / get_stock_prices returns: the batch, or the empty
\* dict when the request failed or nothing valid came back
FetchReturns(w, prices) ==
    /\ threads[w].pc = "fetch"
    /\ threads' = [threads EXCEPT ![w] =
                      [pc |-> AfterFetch(prices), prices |-> prices, logged_count |-> 0,
                       outcome |-> IF prices = <<>> THEN "no_prices" ELSE "running"]]
    /\ call' = [op |-> "fetch", w |-> w, prices |-> prices]
    /\ ret' = NoRet
    /\ UNCHANGED <<now, db, csv, observed, last_alerts, threshold, cooldown, faults>>
    /\ UNCHANGED <<request_counts, clock, last_request_time>>

\* logged_count = data_logger.log_prices(prices)
CycleLog(w, env) ==
    LET t == threads[w]
        r == log_prices(t.prices, env)
    IN  /\ t.pc = "log"
        /\ LedgerStep(r, env)
        /\ threads' = [threads EXCEPT ![w] =
                          [t EXCEPT !.pc = AfterLog(r.count), !.logged_count = r.count]]
        /\ call' = [op |-> "log_prices", w |-> w, prices |-> t.prices, env |-> env]
        /\ ret' = [NoRet EXCEPT !.count = r.count, !.rows = r.rows,
                                !.admitted = r.admitted]
        /\ UNCHANGED <<now, last_alerts, threshold, cooldown>>
        /\ UNCHANGED <<request_counts, clock, last_request_time>>

\* alert_system.process_alerts(prices) and the end of the try block.
\* fault = k > 0: an exception is raised while item k is evaluated;
\* check_price_alerts and process_alerts have no handler, so the alerts of
\* the items before it are stamped and never sent, and the exception
\* reaches the cycle's handler.
CycleAlerts(w, chan, fault) ==
    LET t == threads[w]
        r == process_alerts(IF fault = 0 THEN t.prices
                            ELSE SubSeq(t.prices, 1, fault - 1), chan)
        deliveries == IF fault = 0 THEN r.deliveries ELSE <<>>
        raised == fault # 0 \/ r.raised
    IN  /\ t.pc = "alert"
        /\ fault \in 0..Len(t.prices)
        /\ fault # 0 => faults < MaxFaults
        /\ faults' = IF fault # 0 THEN faults + 1 ELSE faults
        /\ last_alerts' = r.last_alerts
        /\ threads' = [threads EXCEPT ![w] =
                          [t EXCEPT !.pc = "end", !.outcome = update_prices_except(raised)]]
        /\ call' = [op |-> "process_alerts", w |-> w, prices |-> t.prices, chan |-> chan,
                    fault |-> fault]
        /\ ret' = [alerts |-> r.alerts, checked |-> r.checked, before |-> last_alerts,
                   deliveries |-> deliveries, raised |-> raised]
        /\ UNCHANGED <<now, db, csv, observed, threshold, cooldown>>
        /\ UNCHANGED <<request_counts, clock, last_request_time>>

\* the job returns to the scheduler; its locals are gone
EndCycle(w) ==
    /\ threads[w].pc = "end"
    /\ threads' = [threads EXCEPT ![w] = Idle]
    /\ UNCHANGED <<now, db, csv, observed, last_alerts, threshold, cooldown, faults>>
    /\ UNCHANGED <<request_counts, clock, last_request_time, call, ret>>

\* _rate_limit on a thread, statement by statement.

\* lines 30-33: the clock and last_request_time are read and the sleep, if
\* any, is decided; wake is when the sleep is over at the earliest
EnterRateLimit(w) ==
    LET current_time == clock
        time_since_last == current_time - last_request_time
        sleep_time == IF time_since_last < rate_limit_delay
                      THEN rate_limit_delay - time_since_last ELSE 0
    IN  /\ threads[w].pc = "idle"
        /\ threads' = [threads EXCEPT ![w] =
                          IF sleep_time > 0
                          THEN [pc |-> "sleep", wake |-> current_time + sleep_time]
                          ELSE [pc |-> "stamp"]]
        /\ UNCHANGED <<now, db, csv, observed, last_alerts, threshold, cooldown, faults>>
        /\ UNCHANGED <<request_counts, clock, last_request_time, call, ret>>

\* line 34: time.sleep(sleep_time) returns, on time or later
WakeRateLimit(w) ==
    /\ threads[w].pc = "sleep"
    /\ clock >= threads[w].wake
    /\ threads' = [threads EXCEPT ![w] = [pc |-> "stamp"]]
    /\ UNCHANGED <<now, db, csv, observed, last_alerts, threshold, cooldown, faults>>
    /\ UNCHANGED <<request_counts, clock, last_request_time, call, ret>>

\* line 35 and the return: last_request_time is stamped and the caller
\* starts its request (session.get); started is when
StampRateLimit(w) ==
    /\ threads[w].pc = "stamp"
    /\ last_request_time' = clock
    /\ threads' = [threads EXCEPT ![w] = [pc |-> "request", started |-> clock]]
    /\ UNCHANGED <<now, db, csv, observed, last_alerts, threshold, cooldown, faults>>
    /\ UNCHANGED <<request_counts, clock, call, ret>>

\* the request is answered and the caller goes on
EndRequest(w) ==
    /\ threads[w].pc = "request"
    /\ threads' = [threads EXCEPT ![w] = Idle]
    /\ UNCHANGED <<now, db, csv, observed, last_alerts, threshold, cooldown, faults>>
    /\ UNCHANGED <<request_counts, clock, last_request_time, call, ret>>

\* the address the dashboard's own pages are requested from (config.FLASK_HOST)
LocalClient == "127.0.0.1"

\* a route wrapped by @rate_limit serving the request of client_ip: the
\* request is counted, then it is answered with 429 or Endpoint, the wrapped
\* function, runs
Decorated(client_ip, request, Endpoint) ==
    LET d == decorated_function(request_counts, client_ip, now)
    IN  /\ request_counts' = d.request_counts
        /\ call' = request
        /\ IF d.limited
           THEN /\ ret' = [status |-> 429, ran |-> FALSE]
                /\ UNCHANGED <<now, db, csv, observed, last_alerts, threshold, cooldown>>
                /\ UNCHANGED <<clock, last_request_time, threads, faults>>
           ELSE Endpoint

\* what the engine was configured with when a request arrived
Config == [threshold |-> threshold, cooldown |-> cooldown]

\* POST /api/update_threshold
ApiUpdateThreshold(data) ==
    LET r == api_update_threshold(data)
    IN  Decorated(LocalClient, [op |-> "api_update_threshold", data |-> data],
            /\ threshold' = r.threshold
            /\ ret' = [status |-> r.status, before |-> Config]
            /\ UNCHANGED <<now, db, csv, observed, last_alerts, cooldown, faults>>
            /\ UNCHANGED <<clock, last_request_time, threads>>)

\* POST /api/update_cooldown
ApiUpdateCooldown(data) ==
    LET r == api_update_cooldown(data)
    IN  Decorated(LocalClient, [op |-> "api_update_cooldown", data |-> data],
            /\ cooldown' = r.cooldown
            /\ ret' = [status |-> r.status, before |-> Config]
            /\ UNCHANGED <<now, db, csv, observed, last_alerts, threshold, faults>>
            /\ UNCHANGED <<clock, last_request_time, threads>>)

\* POST /api/cleanup; ok tells whether the DELETE of an invoked purge succeeds
ApiCleanup(data, ok) ==
    LET r == api_cleanup(data)
        c == cleanup_old_data(r.days, ok)
    IN  Decorated(LocalClient, [op |-> "api_cleanup", data |-> data, ok |-> ok],
            /\ ret' = [status |-> r.status, invoked |-> r.invoked, days |-> r.days,
                       before |-> db]
            /\ IF r.invoked
               THEN /\ ~ok => faults < MaxFaults
                    /\ faults' = IF ok THEN faults ELSE faults + 1
                    /\ db' = c.db
                    /\ observed' = c.observed
               ELSE /\ ok
                    /\ UNCHANGED <<db, observed, faults>>
            /\ UNCHANGED <<now, csv, last_alerts, threshold, cooldown>>
            /\ UNCHANGED <<clock, last_request_time, threads>>)

\* GET /api/chart/<symbol>?hours=arg; an empty history is answered with 404
ApiChart(symbol, arg, ok) ==
    LET r == api_chart(symbol, arg)
        history == get_asset_history(symbol, r.hours, ok)
    IN  Decorated(LocalClient,
                  [op |-> "api_chart", symbol |-> symbol, arg |-> arg, ok |-> ok],
            /\ ~r.invoked => ok
            /\ ret' = [status |-> IF r.invoked /\ history = <<>> THEN 404 ELSE r.status,
                       invoked |-> r.invoked, hours |-> r.hours,
                       history |-> IF r.invoked THEN history ELSE <<>>]
            /\ UNCHANGED <<now, db, csv, observed, last_alerts, threshold, cooldown, faults>>
            /\ UNCHANGED <<clock, last_request_time, threads>>)

\* GET /api/alerts requested by client_ip.  seen (history): how many requests
\* the client has made in a row at this instant, this one included
ApiAlerts(client_ip) ==
    LET seen == IF call.op = "api_alerts" /\ call.client_ip = client_ip
                THEN call.seen + 1 ELSE 1
    IN  /\ seen <= MAX_REQUESTS_PER_MINUTE + MaxOverLimit
        /\ Decorated(client_ip,
               [op |-> "api_alerts", client_ip |-> client_ip, seen |-> seen],
               /\ ret' = [status |-> 200, ran |-> TRUE,
                          data |-> get_alert_stats(last_alerts, now)]
               /\ UNCHANGED <<now, db, csv, observed, last_alerts, threshold, cooldown>>
               /\ UNCHANGED <<clock, last_request_time, threads, faults>>)

-----------------------------------------------------------------------------
(* Inputs of the specifications *)

\* the numbers sampled around zero and around a maximum
Samples(max) ==
    (-MaxSample..MaxSample) \cup {max - 1, max, max + 1} \cup {-(max + 1), -max, -(max - 1)}

NonNumbers == {Num("str", 0), Num("none", 0)}
Values(max) ==
    {Num(t, v) : t \in {"int", "float"}, v \in Samples(max)}
        \cup {Num("bool", 0), Num("bool", 1), Num("nan", 0)} \cup NonNumbers

SymbolInputs ==
    {SymEmpty, SymX, SymY, SymLong, <<0>>, [i \in 1..MAX_SYMBOL_LENGTH |-> 1]}

NextValidate ==
    \/ \E price \in Values(MAX_PRICE_VALUE) : ValidatePrice(price)
    \/ \E change \in Values(MAX_CHANGE_PERCENT) : ValidateChangePercent(change)
    \/ \E symbol \in SymbolInputs : ValidateSymbol(symbol)

SpecValidate == Init /\ [][NextValidate]_vars

\* the 'timestamp' a fetch may have stamped on a batch that is handled now
FetchTimes == {t \in TimePoints : t <= now /\ now - t <= MaxFetchLag}

\* the instants sampled around the dedup window
LedgerTimes == {t \in TimePoints : t <= DedupWindow + 1}

Obs(symbol, price, change, type, ts) == Item(symbol, Data(F(price), F(change), type, ts))

\* the batches delivered to the ledger
LedgerBatches(ts) ==
    LET Xc == Obs(SymX, 100, 80, "crypto", ts)
        Xs == Obs(SymX, 100, 80, "stock", ts)
        Yz == Obs(SymY, 0, 80, "stock", ts)
    IN  {<<>>, <<Xc>>, <<Xs>>, <<Yz, Xc>>}

\* the batches delivered to the alert engine
AlertBatches(ts) ==
    LET X(c) == Obs(SymX, 100, c, "crypto", ts)
        Y(c) == Obs(SymY, 100, c, "stock", ts)
        Yz == Obs(SymY, 0, 80, "stock", ts)
    IN  {<<>>, <<Yz>>, <<Y(50)>>, <<X(80), Y(50)>>, <<Yz, X(80)>>}
        \cup {<<X(c)>> : c \in {-80, -50, -49, 49, 50, 80}}

\* the batches a fetch hands to an ingestion cycle
CycleBatches(ts) ==
    LET Xc == Obs(SymX, 100, 80, "crypto", ts)
        Yz == Obs(SymY, 0, 80, "stock", ts)
        Xf == Obs(SymX, 100, 80, "forex", ts)
        Ec == Obs(SymEmpty, 100, 80, "crypto", ts)
        Lc == Obs(SymLong, 100, 80, "crypto", ts)
    IN  {<<>>, <<Xc>>, <<Lc>>, <<Yz, Xc>>, <<Ec, Xf>>}

\* the instants sampled for whole cycles: the start and the end of a cooldown
CycleTimes == {0, ALERT_COOLDOWN}

NextLedger ==
    \/ \E t \in LedgerTimes : Tick(t)
    \/ \E ts \in FetchTimes : \E prices \in LedgerBatches(ts), env \in Envs :
          LogPrices(prices, env)

SpecLedger == Init /\ [][NextLedger]_vars

NextAlert ==
    \/ \E t \in TimePoints : Tick(t)
    \/ \E ts \in FetchTimes : \E prices \in AlertBatches(ts) : CheckPriceAlerts(prices)

SpecAlert == Init /\ [][NextAlert]_vars

\* the instants sampled around a purge of 30 days: two recordings a second
\* apart, one 35 days later, and purges 30 days and 40 days after the first
PurgeTimes ==
    {0, 1, DEFAULT_CLEANUP_DAYS * Day, DEFAULT_CLEANUP_DAYS * Day + 1,
     (DEFAULT_CLEANUP_DAYS + 5) * Day, (DEFAULT_CLEANUP_DAYS + 10) * Day}

\* the 'timestamp' a fetch may have stamped on a batch that is recorded now
PurgeFetchTimes == {t \in PurgeTimes : t <= now /\ now - t <= MaxFetchLag}

PurgeBatches(ts) ==
    {<<Obs(SymX, 100, 80, "crypto", ts)>>, <<Obs(SymY, 100, 80, "stock", ts)>>}

\* the day counts handed to cleanup_old_data
DayInputs ==
    {Num("int", d) : d \in {0, DEFAULT_CLEANUP_DAYS, DEFAULT_CLEANUP_DAYS + 5,
                            MAX_CLEANUP_DAYS + 1}}
        \cup {F(DEFAULT_CLEANUP_DAYS), None}

NextPurge ==
    \/ \E t \in PurgeTimes : Tick(t)
    \/ \E ts \in PurgeFetchTimes : \E prices \in PurgeBatches(ts) : LogPrices(prices, NoEnv)
    \/ \E days \in DayInputs, ok \in BOOLEAN : CleanupOldData(days, ok)

\* the ledger with its daily purge
SpecPurge == Init /\ [][NextPurge]_vars

\* the instants sampled while two threads are at work
ThreadTimes == {0, 1}

\* the batches the threads carry
ThreadBatches(ts) ==
    {<<Obs(SymX, 100, 80, "crypto", ts)>>,
     <<Obs(SymY, 100, 49, "stock", ts), Obs(SymX, 100, 80, "crypto", ts)>>}

NextThreads ==
    \/ \E t \in ThreadTimes : Tick(t)
    \/ \E w \in Workers, prices \in ThreadBatches(now) : BeginLogPrices(w, prices)
    \/ \E w \in Workers : CheckDuplicate(w)
    \/ \E w \in Workers : WriteSqlite(w)
    \/ \E w \in Workers : WriteCsv(w)
    \/ \E w \in Workers, prices \in ThreadBatches(now) : BeginCheckPriceAlerts(w, prices)
    \/ \E w \in Workers : CheckCooldown(w)
    \/ \E w \in Workers : EmitAlert(w)
    \/ \E w \in Workers : Return(w)

\* the ledger and the engine called from two threads at once
SpecThreads == Init /\ [][NextThreads]_vars

\* the instants sampled around a history window of one hour
QueryTimes == {0, 1, Hour, Hour + 1}

\* the 'timestamp' a fetch may have stamped on a batch that is recorded now
QueryFetchTimes == {t \in QueryTimes : t <= now /\ now - t <= MaxFetchLag}

QueryBatches(ts) ==
    {<<Obs(SymX, 100, 80, "crypto", ts)>>,
     <<Obs(SymY, 100, 80, "stock", ts), Obs(SymX, 100, 80, "crypto", ts)>>}

\* the limits handed to get_latest_prices
LimitInputs ==
    {Num("int", n) : n \in {-1, 0, 1, 2, MAX_LIMIT, MAX_LIMIT + 1}}
        \cup {F(1), None, Num("bool", 0), Num("bool", 1)}

\* the hour counts handed to get_asset_history
HourInputs ==
    {Num("int", n) : n \in {0, 1, 2, MAX_HISTORY_HOURS + 1}} \cup {F(1), None}

NextQuery ==
    \/ \E t \in QueryTimes : Tick(t)
    \/ \E ts \in QueryFetchTimes : \E prices \in QueryBatches(ts) : LogPrices(prices, NoEnv)
    \/ \E limit \in LimitInputs, pick \in SUBSET (1..Len(db)), ok \in BOOLEAN :
          GetLatestPrices(limit, pick, ok)
    \/ \E symbol \in {SymX, SymY, SymEmpty}, hours \in HourInputs, ok \in BOOLEAN :
          GetAssetHistory(symbol, hours, ok)

\* the ledger and its two read operations
SpecQuery == Init /\ [][NextQuery]_vars

NextRate ==
    \/ Advance
    \/ \E over \in 0..MaxOversleep : RateLimit(over)

\* the scraper's requests, one after the other
SpecRate == Init /\ [][NextRate]_vars

NextRateRace ==
    \/ Advance
    \/ \E w \in Workers : EnterRateLimit(w)
    \/ \E w \in Workers : WakeRateLimit(w)
    \/ \E w \in Workers : StampRateLimit(w)
    \/ \E w \in Workers : EndRequest(w)

\* the one scraper used from two threads (a scheduler job and a dashboard
\* request)
SpecRateRace == Init /\ [][NextRateRace]_vars

\* how the channels may be set up and behave during one process_alerts (a
\* disabled channel is never used: its behaviour is fixed to "ok")
Chans ==
    {c \in [terminal : {"ok", "error"},
            email_enabled : BOOLEAN, email : {"ok", "config", "error"},
            webhook_enabled : BOOLEAN, webhook : {"ok", "config", "http", "error"}] :
        /\ ~c.email_enabled => c.email = "ok"
        /\ ~c.webhook_enabled => c.webhook = "ok"}

DispatchBatches(ts) ==
    {<<Obs(SymX, 100, 80, "crypto", ts)>>,
     <<Obs(SymX, 100, 49, "crypto", ts)>>,
     <<Obs(SymX, 100, 80, "crypto", ts), Obs(SymY, 100, 50, "stock", ts)>>}

NextDispatch ==
    \/ \E t \in CycleTimes : Tick(t)
    \/ \E prices \in DispatchBatches(now), chan \in Chans : ProcessAlerts(prices, chan)

\* the alert engine with its notification channels
SpecDispatch == Init /\ [][NextDispatch]_vars

\* the instants sampled for the administration of the engine
AdminTimes == {0, DedupWindow, ALERT_COOLDOWN}

\* the values handed to update_threshold
ThresholdInputs ==
    {Num(t, v) : t \in {"int", "float"}, v \in {-1, 0, 1, 2 * ALERT_THRESHOLD}}
        \cup {Num("bool", 0), Num("bool", 1), Num("nan", 0)} \cup NonNumbers

\* the values handed to update_cooldown
CooldownInputs ==
    {Num("int", v) : v \in {-1, 0, 1, DedupWindow}}
        \cup {F(0), F(DedupWindow), Num("bool", 0), Num("bool", 1), Num("nan", 0)}
        \cup NonNumbers

\* the batches evaluated while the engine is administered
AdminBatches(ts) ==
    {<<Obs(SymX, 100, 80, "crypto", ts)>>,
     <<Obs(SymX, 100, 80, "crypto", ts), Obs(SymY, 100, 50, "stock", ts)>>}

NextEngine ==
    \/ \E t \in AdminTimes : Tick(t)
    \/ \E prices \in AdminBatches(now) : CheckPriceAlerts(prices)
    \/ \E v \in ThresholdInputs : UpdateThreshold(v)
    \/ \E v \in CooldownInputs : UpdateCooldown(v)
    \/ GetAlertStats

\* the alert engine with its configuration updated while it runs
SpecEngine == Init /\ [][NextEngine]_vars

\* the JSON bodies posted to the endpoints
Bodies(fields) == {None} \cup {JsonBody(f) : f \in fields}
BadFields == {Absent, None, Num("str", 0), Num("nan", 0), Num("nanstr", 0)}
ThresholdFields ==
    BadFields \cup {Num("numstr", ALERT_THRESHOLD), Num("bool", 1), Num("int", 0)}
        \cup {F(v) : v \in {MIN_THRESHOLD - 1, MIN_THRESHOLD, MAX_THRESHOLD, MAX_THRESHOLD + 1}}
CooldownFields ==
    BadFields \cup {Num("bool", 1), F(MIN_COOLDOWN)}
        \cup {Num("int", v) : v \in {MIN_COOLDOWN - 1, MAX_COOLDOWN, MAX_COOLDOWN + 1}}
DaysFields ==
    BadFields \cup {Num("bool", 1), F(MIN_CLEANUP_DAYS)}
        \cup {Num("int", v) : v \in {MIN_CLEANUP_DAYS - 1, MAX_CLEANUP_DAYS_INPUT,
                                      MAX_CLEANUP_DAYS_INPUT + 1}}
\* the ?hours= parameter of a chart request
HoursArgs ==
    {Absent, Num("str", 0)}
        \cup {Num("numstr", v) : v \in {MinChartHours - 1, MinChartHours, MaxChartHours,
                                         MaxChartHours + 1}}
ChartSymbols == {SymX, <<3>>, <<4>>}

\* the instants sampled for the dashboard: a recording, a chart an hour
\* later, a purge after more than a day
DashboardTimes == {0, Hour, Day + 1}

NextConfigApi ==
    \/ \E data \in Bodies(ThresholdFields) : ApiUpdateThreshold(data)
    \/ \E data \in Bodies(CooldownFields) : ApiUpdateCooldown(data)

\* the engine's configuration as the dashboard's endpoints drive it
SpecConfigApi == Init /\ [][NextConfigApi]_vars

NextLedgerApi ==
    \/ \E t \in DashboardTimes : Tick(t)
    \/ LogPrices(<<Obs(SymX, 100, 80, "crypto", now)>>, NoEnv)
    \/ \E data \in Bodies(DaysFields), ok \in BOOLEAN : ApiCleanup(data, ok)
    \/ \E symbol \in ChartSymbols, arg \in HoursArgs, ok \in BOOLEAN : ApiChart(symbol, arg, ok)

\* the ledger as the dashboard's endpoints drive it
SpecLedgerApi == Init /\ [][NextLedgerApi]_vars

\* the batches evaluated while the cooldown state is watched: an invalid
\* observation, one below the threshold, crossings
CooldownBatches(ts) ==
    {<<Obs(SymY, 0, 80, "stock", ts)>>,
     <<Obs(SymX, 100, 49, "crypto", ts)>>,
     <<Obs(SymX, 100, 80, "crypto", ts)>>,
     <<Obs(SymX, 100, 80, "crypto", ts), Obs(SymY, 100, 50, "stock", ts)>>}

\* the channels as the send_* methods may find them
CooldownChans == {c \in Chans : c.email_enabled /\ c.webhook_enabled /\ c.email = c.terminal}

NextCooldown ==
    \/ \E t \in AdminTimes : Tick(t)
    \/ \E prices \in CooldownBatches(now) : CheckPriceAlerts(prices)
    \/ \E chan \in CooldownChans : SendAlert(chan)
    \/ \E v \in {F(2 * ALERT_THRESHOLD), Num("int", -1)} : UpdateThreshold(v)
    \/ \E v \in {Num("int", DedupWindow), Num("int", 0)} : UpdateCooldown(v)
    \/ GetAlertStats

\* the alert engine with every operation that could touch last_alerts
SpecCooldown == Init /\ [][NextCooldown]_vars

\* the thresholds set while an evaluation is under way
RaceThresholds == {F(ALERT_THRESHOLD), F(2 * ALERT_THRESHOLD)}

NextThresholdRace ==
    \/ \E t \in ThreadTimes : Tick(t)
    \/ \E w \in Workers, prices \in ThreadBatches(now) : BeginCheckPriceAlerts(w, prices)
    \/ \E w \in Workers : CheckCooldown(w)
    \/ \E w \in Workers : EmitAlert(w)
    \/ \E w \in Workers : Return(w)
    \/ \E v \in RaceThresholds : UpdateThreshold(v)

\* evaluations on the scheduler's threads while the dashboard's thread sets
\* the threshold
SpecThresholdRace == Init /\ [][NextThresholdRace]_vars

\* the batches a cycle's fetch returns; the empty one stands for a failed
\* or empty fetch
StepBatches(ts) ==
    {<<>>,
     <<Obs(SymX, 100, 80, "crypto", ts)>>,
     <<Obs(SymY, 0, 80, "stock", ts), Obs(SymX, 100, 80, "crypto", ts)>>}

\* the channels as a cycle may find them
StepChans ==
    {c \in Chans : ~c.webhook_enabled /\ c.email_enabled /\ c.terminal = "ok"
                       /\ c.email # "config"}

\* what log_prices may meet in a cycle: nothing, a failed INSERT, both sinks
\* failing
StepEnvs == {env \in Envs : env.queryOk /\ (env.csvOk \/ ~env.sqliteOk)}

\* (the clock stands still: the order of the calls does not depend on it)
NextCycle ==
    \/ \E w \in Workers : StartCycle(w)
    \/ \E w \in Workers, prices \in StepBatches(now) : FetchReturns(w, prices)
    \/ \E w \in Workers, env \in StepEnvs : CycleLog(w, env)
    \/ \E w \in Workers, chan \in StepChans, fault \in 0..2 : CycleAlerts(w, chan, fault)
    \/ \E w \in Workers : EndCycle(w)

\* the scheduler's cycles, call by call
SpecCycle == Init /\ [][NextCycle]_vars

\* the instants sampled around a re-delivery inside the dedup window
RedeliveryTimes == {0, 1, DedupWindow, DedupWindow + 1}

\* the 'timestamp' a fetch may have stamped on a batch that is recorded now
RedeliveryFetchTimes == {t \in RedeliveryTimes : t <= now /\ now - t <= MaxFetchLag}

\* the same sample of one asset, fetched again and again
RedeliveryBatches(ts) ==
    {<<Obs(SymX, 100, 80, "crypto", ts)>>,
     <<Obs(SymY, 100, 49, "stock", ts), Obs(SymX, 100, 80, "crypto", ts)>>}

\* the bodies posted to /api/update_cooldown: the smallest and the largest
\* cooldown it accepts
RedeliveryCooldowns == {JsonBody(Num("int", MIN_COOLDOWN)), JsonBody(Num("int", MAX_COOLDOWN))}

NextRedelivery ==
    \/ \E t \in RedeliveryTimes : Tick(t)
    \/ \E ts \in RedeliveryFetchTimes : \E prices \in RedeliveryBatches(ts) :
          UpdatePrices(prices, NoEnv)
    \/ \E data \in RedeliveryCooldowns : ApiUpdateCooldown(data)

\* cycles, one after the other and without failures, that fetch an
\* unchanged sample, with the cooldown set from the dashboard
SpecRedelivery == Init /\ [][NextRedelivery]_vars

\* the instants at which the engine evaluates a batch: closer together than
\* the cooldown, and up to more than two cooldowns after the start
RearmHorizon == 2 * ALERT_COOLDOWN + 2 * DedupWindow
RearmTimes ==
    {0, 2 * DedupWindow, ALERT_COOLDOWN, ALERT_COOLDOWN + 5,
     ALERT_COOLDOWN + 2 * DedupWindow, 2 * ALERT_COOLDOWN, RearmHorizon}

\* every batch holds an observation of SymX that crosses the threshold
RearmBatches(ts) ==
    {<<Obs(SymX, 100, 80, "crypto", ts)>>,
     <<Obs(SymX, 100, -50, "crypto", ts)>>,
     <<Obs(SymY, 100, 50, "stock", ts), Obs(SymX, 100, 80, "crypto", ts)>>}

\* the cooldowns set in between
RearmCooldowns == {Num("int", DedupWindow), Num("int", ALERT_COOLDOWN)}

NextRearm ==
    \/ \E t \in RearmTimes : Tick(t)
    \/ \E prices \in RearmBatches(now) : CheckPriceAlerts(prices)
    \/ \E v \in RearmCooldowns : UpdateCooldown(v)

\* the alert engine evaluating, cycle after cycle, an asset that crosses the
\* threshold every time: the clock advances and the scheduler keeps running
\* the job (an interval trigger), so neither can be postponed forever
SpecRearm ==
    /\ Init /\ [][NextRearm]_vars
    /\ WF_vars(\E t \in RearmTimes : Tick(t))
    /\ WF_vars(\E prices \in RearmBatches(now) : CheckPriceAlerts(prices))

\* the instants of the cycles that deliver the same asset again and again,
\* around the end of the dedup window of a recording made at the start
StarveHorizon == DedupWindow + 2
StarveTimes == {0, 1, DedupWindow, DedupWindow + 1, StarveHorizon}

\* the 'timestamp' a fetch may have stamped on a batch that is recorded now
StarveFetchTimes == {t \in StarveTimes : t <= now /\ now - t <= MaxFetchLag}

\* every batch holds a valid observation of SymX
StarveBatches(ts) ==
    {<<Obs(SymX, 100, 80, "crypto", ts)>>,
     <<Obs(SymY, 0, 80, "stock", ts), Obs(SymX, 100, 49, "crypto", ts)>>}

\* a call in which nothing fails, one whose two sink writes fail
StarveEnvs == {env \in Envs : env.queryOk /\ (env.sqliteOk <=> env.csvOk)}

NextStarve ==
    \/ \E t \in StarveTimes : Tick(t)
    \/ \E ts \in StarveFetchTimes : \E prices \in StarveBatches(ts) :
          LogPrices(prices, NoEnv)
    \/ \E ts \in StarveFetchTimes :
          \E prices \in StarveBatches(ts), env \in StarveEnvs \ {NoEnv} :
             LogPrices(prices, env)

\* the ledger fed on every cycle with an observation of the same asset: the
\* clock advances and the scheduler keeps running the job (an interval
\* trigger), so a call in which nothing fails cannot be postponed forever
SpecStarve ==
    /\ Init /\ [][NextStarve]_vars
    /\ WF_vars(\E t \in StarveTimes : Tick(t))
    /\ WF_vars(\E ts \in StarveFetchTimes : \E prices \in StarveBatches(ts) :
                  LogPrices(prices, NoEnv))

\* the clients of the dashboard
Clients == {LocalClient, "10.0.0.2"}

\* the instants sampled around the end of a one-minute window
RequestTimes == {0, 1, RequestWindow, RequestWindow + 1}

NextRequests ==
    \/ \E t \in RequestTimes : Tick(t)
    \/ \E client_ip \in Clients : ApiAlerts(client_ip)

\* the dashboard answering the requests of its clients
SpecRequests == Init /\ [][NextRequests]_vars

\* batches of one and of two valid observations
BatchBatches(ts) ==
    LET Xc == Obs(SymX, 100, 80, "crypto", ts)
        Ys == Obs(SymY, 100, 49, "stock", ts)
    IN  {<<Xc>>, <<Ys>>, <<Xc, Ys>>, <<Ys, Xc>>}

NextBatch ==
    \/ \E t \in LedgerTimes : Tick(t)
    \/ \E ts \in FetchTimes : \E prices \in BatchBatches(ts), env \in Envs :
          LogPrices(prices, env)
    \/ \E ts \in FetchTimes : \E prices \in BatchBatches(ts), k \in 1..MaxRows :
          LogPricesEntryFault(prices, k)

\* the ledger fed with batches of several entries, a sink access failing as
\* a whole or at one entry
SpecBatch == Init /\ [][NextBatch]_vars

\* the running program: the scheduler's cycles are the only callers of the
\* ledger and of the alert engine
Next ==
    \/ \E t \in CycleTimes : Tick(t)
    \/ \E ts \in FetchTimes : \E prices \in CycleBatches(ts), env \in Envs :
          UpdatePrices(prices, env)

Spec == Init /\ [][Next]_vars

-----------------------------------------------------------------------------
(* Properties of the ledger *)

SameKey(r1, r2) == r1.symbol = r2.symbol /\ r1.asset_type = r2.asset_type
Within(t1, t2, d) == t1 - t2 <= d /\ t2 - t1 <= d
IsLogStep == call'.op = "log_prices"

\* C1: two observations of the same (symbol, asset_type) whose observed_at
\* ('timestamp') values lie within the dedup window of each other never both
\* have a row in the price_data table.  Stated for the runs in which no sink
\* access failed (faults = 0): the violation needs no failure.
C1_DedupByObservedAt ==
    faults = 0 =>
        \A i, j \in 1..Len(db) :
            (i # j /\ SameKey(db[i], db[j])) =>
                ~Within(observed[i], observed[j], DedupWindow)

\* C5: when both sink writes succeed, log_prices returns the number of
\* entries it wrote (the length of data_to_log), each counted once.
C5_ReturnsEntriesWritten ==
    (call.op = "log_prices" /\ call.env.sqliteOk /\ call.env.csvOk) =>
        ret.count = Len(ret.rows)

\* C6: an entry the flat log already holds (also one whose INSERT failed) is
\* skipped by a later log_prices inside the dedup window: with a working
\* dedup query, no entry reaches data_to_log while the flat log holds a row
\* of the same (symbol, asset_type) within the window.
C6_CsvOnlyEntryIsDeduplicated ==
    [][(IsLogStep /\ call'.env.queryOk) =>
         \A i \in 1..Len(ret'.rows) : \A k \in 1..Len(csv) :
            SameKey(csv[k], ret'.rows[i]) =>
                ~Within(csv[k].timestamp, ret'.rows[i].timestamp, DedupWindow)]_vars

\* C7: in log_prices each sink is written whenever its own access succeeds,
\* whatever happened to the other sink; when both fail the call returns 0
\* and neither sink changes.
C7_BestEffortPerSink ==
    [][(IsLogStep /\ ret'.rows # <<>>) =>
         /\ call'.env.csvOk => csv' = csv \o ret'.rows
         /\ call'.env.sqliteOk => db' = db \o ret'.rows
         /\ ~call'.env.csvOk => csv' = csv
         /\ ~call'.env.sqliteOk => db' = db
         /\ (~call'.env.sqliteOk /\ ~call'.env.csvOk) => ret'.count = 0]_vars

\* C7 witness: the INSERT failed and the rows were still appended to the flat log
C7_Witness ==
    /\ call.op = "log_prices"
    /\ ret.rows # <<>>
    /\ ~call.env.sqliteOk /\ call.env.csvOk
    /\ db = <<>>
    /\ csv = ret.rows

-----------------------------------------------------------------------------
(* Properties of the alert engine *)

ItemsOf(prices) == {prices[i] : i \in 1..Len(prices)}
AlertsFor(symbol) == {i \in 1..Len(ret.alerts) : ret.alerts[i].symbol = symbol}
Valid(it) == validate_price_data(it.symbol, it.data)
\* a valid observation whose change magnitude reaches the threshold
Crossing(it) == Valid(it) /\ threshold.t # "nan" /\ Abs(it.data.change_24h.v) >= threshold.v
InCooldown(symbol) ==
    symbol \in DOMAIN ret.before /\ now - ret.before[symbol] < cooldown
Untouched(symbol) ==
    /\ symbol \in DOMAIN last_alerts <=> symbol \in DOMAIN ret.before
    /\ symbol \in DOMAIN ret.before => last_alerts[symbol] = ret.before[symbol]

\* C2: the first threshold-crossing observation of a symbol emits exactly one
\* alert; a crossing evaluated while the symbol's cooldown runs emits no
\* alert and leaves last_alerts[symbol] as it was.
C2_CooldownSuppresses ==
    call.op = "check_price_alerts" =>
        \A it \in ItemsOf(call.prices) :
            Crossing(it) =>
                /\ InCooldown(it.symbol) =>
                       AlertsFor(it.symbol) = {} /\ Untouched(it.symbol)
                /\ it.symbol \notin DOMAIN ret.before =>
                       Cardinality(AlertsFor(it.symbol)) = 1

\* C2 witness: a crossing evaluated 120 s after the symbol's alert is suppressed
C2_Witness ==
    /\ call.op = "check_price_alerts"
    /\ \E it \in ItemsOf(call.prices) :
          /\ Crossing(it)
          /\ InCooldown(it.symbol)
          /\ now > ret.before[it.symbol]
    /\ ret.alerts = <<>>

\* C3: a threshold-crossing observation of a symbol with no earlier alert, or
\* whose last alert is at least `cooldown` seconds old, emits an alert stamped
\* with the evaluation time and sets last_alerts[symbol] to it.  With
\* threshold 5.0 and cooldown 300: after an alert at 0, a crossing at 120 is
\* suppressed and one at 305 emits and records 305.
C3_CooldownRearm ==
    call.op = "check_price_alerts" =>
        \A it \in ItemsOf(call.prices) :
            Crossing(it) =>
                /\ (it.symbol \notin DOMAIN ret.before
                    \/ now - ret.before[it.symbol] >= cooldown) =>
                       /\ \E i \in AlertsFor(it.symbol) : ret.alerts[i].timestamp = now
                       /\ it.symbol \in DOMAIN last_alerts
                       /\ last_alerts[it.symbol] = now
                /\ (/\ threshold = F(50) /\ cooldown = 300
                    /\ it.symbol \in DOMAIN ret.before
                    /\ ret.before[it.symbol] = 0) =>
                       /\ now = 120 => AlertsFor(it.symbol) = {} /\ last_alerts[it.symbol] = 0
                       /\ now = 305 => AlertsFor(it.symbol) # {} /\ last_alerts[it.symbol] = 305

\* C3 witness: the last alert is exactly `cooldown` seconds old and the
\* crossing emits again
C3_Witness ==
    /\ call.op = "check_price_alerts"
    /\ \E it \in ItemsOf(call.prices) :
          /\ Crossing(it)
          /\ it.symbol \in DOMAIN ret.before
          /\ now - ret.before[it.symbol] = cooldown
          /\ AlertsFor(it.symbol) # {}
          /\ last_alerts[it.symbol] = now

\* C4: a valid observation crosses exactly when abs(change_24h) >= threshold:
\* below the threshold it never alerts, at or above it a symbol with no
\* earlier alert always does, whatever the sign of the change.
C4_ThresholdBoundary ==
    call.op = "check_price_alerts" =>
        /\ \A it \in ItemsOf(call.prices) :
              Valid(it) =>
                  /\ Abs(it.data.change_24h.v) < threshold.v =>
                         AlertsFor(it.symbol) = {} /\ Untouched(it.symbol)
                  /\ (Abs(it.data.change_24h.v) >= threshold.v
                      /\ it.symbol \notin DOMAIN ret.before) =>
                         AlertsFor(it.symbol) # {}
        /\ \A i \in 1..Len(ret.alerts) :
              Abs(ret.alerts[i].change_24h.v) >= ret.alerts[i].threshold.v

\* C4 witness: a change of exactly minus the threshold has alerted
C4_Witness ==
    /\ call.op = "check_price_alerts"
    /\ \E i \in 1..Len(ret.alerts) : ret.alerts[i].change_24h.v = -threshold.v

-----------------------------------------------------------------------------
(* Properties of the validator *)

IsFinite(x) == x.t \in {"int", "float"}

\* C8: validate_price rejects zero, every negative price and every value
\* that is not a number, and accepts every positive price up to
\* MAX_PRICE_VALUE; validate_change_percent accepts a magnitude of exactly
\* MAX_CHANGE_PERCENT, of either sign, and rejects MAX_CHANGE_PERCENT + 1.
C8_ValueBoundaries ==
    /\ call.op = "validate_price" =>
          /\ (IsFinite(call.arg) /\ call.arg.v <= 0) => ~ret.ok
          /\ call.arg \in NonNumbers => ~ret.ok
          /\ (IsFinite(call.arg) /\ call.arg.v > 0 /\ call.arg.v <= MAX_PRICE_VALUE) => ret.ok
    /\ call.op = "validate_change_percent" =>
          /\ (IsFinite(call.arg) /\ Abs(call.arg.v) = MAX_CHANGE_PERCENT) => ret.ok
          /\ (IsFinite(call.arg) /\ Abs(call.arg.v) = MAX_CHANGE_PERCENT + 1) => ~ret.ok

\* C8 witness: a change of exactly -MAX_CHANGE_PERCENT was accepted
C8_Witness ==
    /\ call.op = "validate_change_percent"
    /\ call.arg = F(-MAX_CHANGE_PERCENT)
    /\ ret.ok

-----------------------------------------------------------------------------
(* Properties of the ingestion cycle *)

RowsOf(seq) == {seq[i] : i \in 1..Len(seq)}
RowData(r) == Data(r.price, r.change_24h, r.asset_type, 0)

\* C9: no observation whose symbol is empty or longer than MAX_SYMBOL_LENGTH,
\* or whose type is neither crypto nor stock, gets a row in the table or in
\* the flat log, or an alert.
C9_RejectsBadSymbolAndKind ==
    /\ \A r \in RowsOf(db) \cup RowsOf(csv) :
          /\ Len(r.symbol) >= 1 /\ Len(r.symbol) <= MAX_SYMBOL_LENGTH
          /\ r.asset_type \in AssetTypes
    /\ \A s \in DOMAIN last_alerts : Len(s) >= 1 /\ Len(s) <= MAX_SYMBOL_LENGTH

\* C10: in a cycle, log_prices and check_price_alerts admit the same
\* observations of the batch; an observation that fails validation gets no
\* row in either sink and no alert and leaves last_alerts alone, and every
\* valid observation of the same batch is still admitted.
C10_SameAdmission ==
    /\ \A r \in RowsOf(db) \cup RowsOf(csv) : validate_price_data(r.symbol, RowData(r))
    /\ call.op = "update_prices" =>
          /\ ret.admitted = {ret.checked[i].symbol : i \in 1..Len(ret.checked)}
          /\ \A it \in ItemsOf(call.prices) :
                IF Valid(it)
                THEN it.symbol \in ret.admitted
                ELSE /\ it.symbol \notin ret.admitted
                     /\ \A r \in RowsOf(ret.rows) : r.symbol # it.symbol
                     /\ AlertsFor(it.symbol) = {}
                     /\ Untouched(it.symbol)

\* C10 witness: a cycle on a batch of one invalid and one valid observation
\* wrote and alerted the valid one only
C10_Witness ==
    /\ call.op = "update_prices"
    /\ \E it \in ItemsOf(call.prices) : ~Valid(it) /\ it.symbol \notin DOMAIN last_alerts
    /\ \E it \in ItemsOf(call.prices) :
          /\ Valid(it)
          /\ \E r \in RowsOf(db) \cap RowsOf(csv) : r.symbol = it.symbol /\ r.timestamp = now
          /\ AlertsFor(it.symbol) # {}

-----------------------------------------------------------------------------
(* Properties of the engine's configuration *)

\* a value every reading takes for a number greater than 0
PositiveNumber(x) == IsFinite(x) /\ x.v > 0
\* a value no reading takes for a number greater than 0
NoPositiveNumber(x) == x.t \in {"str", "none", "nan"} \/ (x.t # "nan" /\ x.v <= 0)

\* C11: update_threshold with a value that is not a number greater than 0,
\* and update_cooldown with a value that is not a positive integer, change
\* nothing: threshold, cooldown and last_alerts stay as they were; a positive
\* number replaces the threshold only, a positive int the cooldown only.
C11_RejectsInvalidUpdates ==
    [][/\ call'.op = "update_threshold" =>
           /\ cooldown' = cooldown /\ last_alerts' = last_alerts
           /\ NoPositiveNumber(call'.arg) => threshold' = threshold
           /\ PositiveNumber(call'.arg) => threshold' = F(call'.arg.v)
       /\ call'.op = "update_cooldown" =>
           /\ threshold' = threshold /\ last_alerts' = last_alerts
           /\ NoPositiveNumber(call'.arg) => cooldown' = cooldown
           /\ (call'.arg.t = "int" /\ call'.arg.v > 0) => cooldown' = call'.arg.v]_vars

-----------------------------------------------------------------------------
(* Properties of the purge *)

\* a purge that ran on a day count the method takes as given
IsPurge == call.op = "cleanup_old_data" /\ call.ok /\ call.days.t = "int"
               /\ call.days.v >= 1 /\ call.days.v <= MAX_CLEANUP_DAYS

\* C15: cleanup_old_data(days) deletes from the table exactly the entries
\* whose observed_at is older than now - days and leaves the others as they
\* were; with entries at -40 d and -5 d, a purge of 30 days deletes exactly
\* the first.
C15_PurgeByObservedAt ==
    IsPurge =>
        db = Filter(ret.before,
                    [i \in 1..Len(ret.before) |->
                        ~(ret.observed[i] < now - call.days.v * Day)])

\* C16: cleanup_old_data returns the number of entries it deleted.
C16_ReturnsDeletedCount ==
    IsPurge => ret.value = Num("int", Len(ret.before) - Len(db))

-----------------------------------------------------------------------------
(* Properties of the administrative endpoints *)

\* a posted field that is no number, or a number outside [lo, hi]
Refusable(data, lo, hi) ==
    \/ data = None
    \/ data.field \in BadFields
    \/ data.field.t \in {"int", "float", "numstr"}
           /\ (data.field.v < lo \/ data.field.v > hi)

\* C12: whatever is posted to /api/update_threshold and /api/update_cooldown,
\* the threshold stays within [MIN_THRESHOLD, MAX_THRESHOLD] and the cooldown
\* within [MIN_COOLDOWN, MAX_COOLDOWN]; a field that is no number or is out
\* of range is answered with an error status and changes neither value.
C12_ConfigurationWithinBounds ==
    /\ IsFinite(threshold) /\ threshold.v >= MIN_THRESHOLD /\ threshold.v <= MAX_THRESHOLD
    /\ cooldown >= MIN_COOLDOWN /\ cooldown <= MAX_COOLDOWN
    /\ (call.op = "api_update_threshold"
            /\ Refusable(call.data, MIN_THRESHOLD, MAX_THRESHOLD)) =>
           ret.status # 200 /\ Config = ret.before
    /\ (call.op = "api_update_cooldown"
            /\ Refusable(call.data, MIN_COOLDOWN, MAX_COOLDOWN)) =>
           ret.status # 200 /\ Config = ret.before

\* C13: api_cleanup calls cleanup_old_data only with an int day count in
\* [1, 365], and not at all when the posted count is out of range or no
\* number; api_chart calls get_asset_history only with an int hour count in
\* [1, 168].
C13_BoundaryArgumentsInRange ==
    /\ call.op = "api_cleanup" =>
          /\ ret.invoked =>
                /\ ret.days.t = "int"
                /\ ret.days.v >= MIN_CLEANUP_DAYS /\ ret.days.v <= MAX_CLEANUP_DAYS_INPUT
          /\ (/\ Refusable(call.data, MIN_CLEANUP_DAYS, MAX_CLEANUP_DAYS_INPUT)
              /\ (call.data = None \/ call.data.field # Absent)) =>
                 ~ret.invoked /\ ret.status # 200 /\ db = ret.before
    /\ (call.op = "api_chart" /\ ret.invoked) =>
          /\ ret.hours.t = "int"
          /\ ret.hours.v >= MinChartHours /\ ret.hours.v <= MaxChartHours

\* C13 witness: the endpoint invoked a purge of one day, the smallest count,
\* and the purge deleted a row
C13_Witness ==
    /\ call.op = "api_cleanup"
    /\ ret.invoked
    /\ ret.days = Num("int", MIN_CLEANUP_DAYS)
    /\ Len(db) < Len(ret.before)

-----------------------------------------------------------------------------
(* Properties of the dispatch *)

\* the deliveries of alert i on a channel
DeliveriesOf(i, channel) ==
    {k \in 1..Len(ret.deliveries) :
        /\ ret.deliveries[k].alert = i
        /\ ret.deliveries[k].delivery.channel = channel
        /\ ret.deliveries[k].delivery.attempted}

\* C14: process_alerts attempts, for every alert it emits, the terminal and
\* each enabled channel exactly once, whatever the other channels met
\* (exception, incomplete configuration, rejected webhook status); a
\* disabled channel is not attempted; no exception leaves process_alerts.
C14_BestEffortBroadcast ==
    call.op = "process_alerts" =>
        /\ ~ret.raised
        /\ \A i \in 1..Len(ret.alerts) :
              /\ Cardinality(DeliveriesOf(i, "terminal")) = 1
              /\ Cardinality(DeliveriesOf(i, "email")) =
                     (IF call.chan.email_enabled THEN 1 ELSE 0)
              /\ Cardinality(DeliveriesOf(i, "webhook")) =
                     (IF call.chan.webhook_enabled THEN 1 ELSE 0)

\* C14 witness: two alerts, the terminal and the email channel failed for
\* both and the webhook was still used for both
C14_Witness ==
    /\ call.op = "process_alerts"
    /\ Len(ret.alerts) = 2
    /\ call.chan.terminal = "error"
    /\ call.chan.email_enabled /\ call.chan.email = "error"
    /\ \A i \in 1..2 : \E k \in DeliveriesOf(i, "webhook") :
          ret.deliveries[k].delivery.outcome = "sent"

-----------------------------------------------------------------------------
(* Properties of the request pacing *)

\* C17: of the _rate_limit calls made one after the other, the first does
\* not sleep and every later one returns no earlier than rate_limit_delay
\* (60 s / COINGECKO_RATE_LIMIT) after the one before it returned, sleeping
\* only when less than that has passed.
C17_IntervalGate ==
    call.op = "rate_limit" =>
        /\ ret.returned >= call.entered
        /\ ret.previous = None => ret.slept = 0 /\ ret.returned = call.entered
        /\ ret.previous # None =>
              /\ ret.returned - ret.previous.v >= rate_limit_delay
              /\ call.entered - ret.previous.v >= rate_limit_delay =>
                     ret.returned = call.entered

\* C17 witness: a call entered 0.5 s after the last one returned has slept
\* and returned exactly rate_limit_delay after it
C17_Witness ==
    /\ call.op = "rate_limit"
    /\ ret.previous # None
    /\ call.entered - ret.previous.v = 5
    /\ ret.slept > 0
    /\ ret.returned - ret.previous.v = rate_limit_delay

-----------------------------------------------------------------------------
(* Properties of concurrent calls *)

\* the alerts a thread's call has emitted so far
AlertsOf(w) == IF threads[w].pc = "idle" THEN <<>> ELSE threads[w].alerts

\* C18: log_prices calls running at the same time on two threads never leave
\* two rows of the same (symbol, asset_type) recorded within the dedup
\* window of each other: the check and the write of an entry are one step
\* with respect to the other call.
C18_ConcurrentRecordOnce ==
    \A i, j \in 1..Len(db) :
        (i # j /\ SameKey(db[i], db[j])) =>
            ~Within(db[i].timestamp, db[j].timestamp, DedupWindow)

\* C19: check_price_alerts calls running at the same time on two threads
\* never both emit an alert for the same symbol within one cooldown.
C19_ConcurrentAlertOnce ==
    \A v, w \in Workers :
        v # w =>
            \A i \in 1..Len(AlertsOf(v)), j \in 1..Len(AlertsOf(w)) :
                AlertsOf(v)[i].symbol = AlertsOf(w)[j].symbol =>
                    ~(/\ AlertsOf(v)[i].timestamp - AlertsOf(w)[j].timestamp < cooldown
                      /\ AlertsOf(w)[j].timestamp - AlertsOf(v)[i].timestamp < cooldown)

-----------------------------------------------------------------------------
(* Properties of the statistics *)

\* the symbols an observation evaluated at instant t would be suppressed for
Suppressed(t) ==
    {s \in DOMAIN last_alerts \cup {SymX, SymY} : ~can_send_alert(last_alerts, s, t)}

\* C20: get_alert_stats reports as active_alerts the number of symbols whose
\* last alert is less than the current cooldown ago, which is the number of
\* symbols a crossing observation evaluated at that instant would be
\* suppressed for, and it changes neither last_alerts nor threshold nor
\* cooldown.
C20_StatsCountActiveCooldowns ==
    [][call'.op = "get_alert_stats" =>
          /\ ret'.active_alerts =
                 Cardinality({s \in DOMAIN last_alerts : now - last_alerts[s] < cooldown})
          /\ ret'.active_alerts = Cardinality(Suppressed(now))
          /\ last_alerts' = last_alerts
          /\ threshold' = threshold
          /\ cooldown' = cooldown]_vars

\* statistics taken while one symbol is in its cooldown and the cooldown of
\* another has just run out
C20_Witness ==
    /\ call.op = "get_alert_stats"
    /\ ret.active_alerts = 1
    /\ ret.total_alerts_sent = 2
    /\ \E s \in DOMAIN last_alerts : now - last_alerts[s] = cooldown

-----------------------------------------------------------------------------
(* Properties of the read operations *)

\* C21: get_latest_prices(limit) never returns more than MAX_LIMIT entries,
\* whatever limit is passed: the count it asks the table for lies in
\* 1..MAX_LIMIT, and the entries returned are as many as that count allows
\* and no entry left out was recorded later than one returned.
C21_LatestBounded ==
    call.op = "get_latest_prices" =>
        /\ Len(ret.rows) <= MAX_LIMIT
        /\ ret.limit \in 1..MAX_LIMIT
        /\ call.ok =>
              /\ Len(ret.rows) = Min(ret.limit, Len(db))
              /\ \A k \in 1..Len(ret.rows) : \E i \in ret.picked : ret.rows[k] = db[i]
              /\ \A i \in ret.picked, j \in (1..Len(db)) \ ret.picked :
                     db[i].timestamp >= db[j].timestamp

\* one entry asked of a table of two recorded an hour apart: the later one
C21_Witness ==
    /\ call.op = "get_latest_prices"
    /\ call.ok
    /\ call.limit = Num("int", 1)
    /\ Len(db) = 2
    /\ db[1].timestamp < db[2].timestamp
    /\ ret.rows = <<db[2]>>

\* a history read over an hour count the method takes as given
IsHistory == call.op = "get_asset_history" /\ call.ok /\ call.symbol # SymEmpty
                 /\ call.hours.t = "int" /\ call.hours.v >= 1
                 /\ call.hours.v <= MAX_HISTORY_HOURS

\* C22: get_asset_history(symbol, hours) returns exactly the entries of the
\* symbol whose observed_at lies in the last hours, oldest first, and none of
\* another symbol or older than the window.
C22_HistoryByObservedAt ==
    IsHistory =>
        ret.rows = Filter(db, [i \in 1..Len(db) |->
                                  /\ db[i].symbol = call.symbol
                                  /\ observed[i] >= now - call.hours.v * Hour
                                  /\ observed[i] <= now])

-----------------------------------------------------------------------------
(* Properties of the flat log *)

\* seq1 is an initial part of seq2
IsPrefix(seq1, seq2) ==
    Len(seq1) <= Len(seq2) /\ \A i \in 1..Len(seq1) : seq1[i] = seq2[i]

\* C25: the flat log only grows at its end, and a log_prices call whose
\* write to the table failed appends no row of its batch to the flat log.
C25_CsvAfterSqlite ==
    [][/\ IsPrefix(csv, csv')
       /\ (call'.op = "log_prices" /\ ~call'.env.sqliteOk) => csv' = csv]_vars

-----------------------------------------------------------------------------
(* Properties of the cooldown state *)

\* last_alerts[symbol] is after the step what it was before it
EntryKept(symbol) ==
    /\ symbol \in DOMAIN last_alerts' <=> symbol \in DOMAIN last_alerts
    /\ symbol \in DOMAIN last_alerts => last_alerts'[symbol] = last_alerts[symbol]

\* C28: last_alerts changes only where an alert is emitted: evaluating an
\* invalid observation, one below the threshold or a crossing inside its
\* cooldown leaves the symbol's entry as it was, get_alert_stats,
\* update_threshold, update_cooldown and the send_* methods leave every
\* entry as it was, no step removes a symbol and no entry ever moves back.
C28_CooldownFrame ==
    [][/\ \A s \in DOMAIN last_alerts :
              s \in DOMAIN last_alerts' /\ last_alerts'[s] >= last_alerts[s]
       /\ \A s \in DOMAIN last_alerts' :
              EntryKept(s) \/ (/\ call'.op = "check_price_alerts"
                          /\ \E k \in 1..Len(ret'.alerts) :
                                 /\ ret'.alerts[k].symbol = s
                                 /\ ret'.alerts[k].timestamp = last_alerts'[s])
       /\ call'.op \in {"get_alert_stats", "update_threshold", "update_cooldown",
                         "send_alert"} => last_alerts' = last_alerts
       /\ call'.op = "check_price_alerts" =>
              \A it \in ItemsOf(call'.prices) :
                  (\/ ~Valid(it)
                   \/ ~Crossing(it)
                   \/ ~can_send_alert(last_alerts, it.symbol, now)) => EntryKept(it.symbol)]_vars

\* an evaluation that suppressed the crossing of one symbol, whose entry
\* stayed, and emitted for another
C28_Witness ==
    /\ call.op = "check_price_alerts"
    /\ Len(call.prices) = 2
    /\ ret.before # EmptyMap
    /\ Len(ret.alerts) = 1
    /\ \E s \in DOMAIN ret.before : last_alerts[s] = ret.before[s] /\ last_alerts[s] < now
    /\ \E s \in DOMAIN last_alerts : s \notin DOMAIN ret.before /\ last_alerts[s] = now

-----------------------------------------------------------------------------
(* Properties of the alert's threshold field *)

\* C30: every alert an evaluation emits carries the threshold its change was
\* compared against, so the magnitude of its change is at least its
\* 'threshold' field, also when update_threshold runs while the evaluation
\* is under way.
C30_AlertCarriesThreshold ==
    \A w \in Workers :
        \A k \in 1..Len(AlertsOf(w)) :
            /\ AlertsOf(w)[k].threshold.t # "nan"
            /\ Abs(AlertsOf(w)[k].change_24h.v) >= AlertsOf(w)[k].threshold.v

-----------------------------------------------------------------------------
(* Properties of the request pacing under concurrent callers *)

\* C29: with _rate_limit entered from several threads, no two requests to
\* the upstream source start less than rate_limit_delay apart.
C29_ConcurrentIntervalGate ==
    \A v, w \in Workers :
        (v # w /\ threads[v].pc = "request" /\ threads[w].pc = "request") =>
            \/ threads[v].started - threads[w].started >= rate_limit_delay
            \/ threads[w].started - threads[v].started >= rate_limit_delay

-----------------------------------------------------------------------------
(* Properties of the ingestion cycle *)

\* thread w moves from one call of its cycle to the next in this step
Moves(w, from, to) == threads[w].pc = from /\ threads'[w].pc = to

\* the items of a batch that pass validation, in order
ValidItems(prices) ==
    Filter(prices, [i \in 1..Len(prices) |-> Valid(prices[i])])

\* C23: in a cycle, log_prices of the batch starts only when the fetch has
\* returned it and has completed when process_alerts of the same batch
\* starts; the sinks change only in the cycle's log_prices call and
\* last_alerts only in its process_alerts call.
C23_CycleOrder ==
    [][/\ \A w \in Workers :
              /\ (threads'[w].pc = "log" /\ threads[w].pc # "log") =>
                     /\ threads[w].pc = "fetch"
                     /\ call'.op = "fetch" /\ call'.prices = threads'[w].prices
              /\ (threads'[w].pc = "alert" /\ threads[w].pc # "alert") =>
                     /\ threads[w].pc = "log"
                     /\ call'.op = "log_prices" /\ call'.prices = threads[w].prices
                     /\ threads'[w].prices = threads[w].prices
              /\ (call'.op = "process_alerts" /\ call'.w = w /\ call' # call) =>
                     Moves(w, "alert", "end") /\ call'.prices = threads[w].prices
       /\ (db' # db \/ csv' # csv) => \E w \in Workers : Moves(w, "log", "alert")
       /\ last_alerts' # last_alerts => \E w \in Workers : Moves(w, "alert", "end")]_vars

\* a cycle that has recorded its batch and then alerted on it
C23_Witness ==
    /\ call.op = "process_alerts"
    /\ threads[call.w].pc = "end"
    /\ threads[call.w].logged_count > 0
    /\ Len(ret.alerts) = 1
    /\ \E i \in 1..Len(db) : db[i].symbol = ret.alerts[1].symbol

\* C24: a cycle ends completed, with nothing fetched or with its error
\* logged, never with an exception handed to the scheduler; a cycle whose
\* fetch returned nothing changes no sink and no cooldown; what a cycle
\* records and alerts on are items of the batch its own fetch returned, and
\* a thread starts its next cycle with nothing kept from the last one.
C24_CycleFailureContained ==
    [][\A w \in Workers :
          /\ threads'[w].pc = "end" =>
                 threads'[w].outcome \in {"completed", "no_prices", "error_logged"}
          /\ Moves(w, "fetch", "end") =>
                 /\ threads'[w].prices = <<>>
                 /\ db' = db /\ csv' = csv /\ last_alerts' = last_alerts
          /\ Moves(w, "log", "alert") =>
                 /\ IsPrefix(db, db') /\ IsPrefix(csv, csv')
                 /\ \A i \in (Len(db) + 1)..Len(db') :
                        \E it \in ItemsOf(threads[w].prices) : db'[i] = Row(it.symbol, it.data, now)
                 /\ \A i \in (Len(csv) + 1)..Len(csv') :
                        \E it \in ItemsOf(threads[w].prices) : csv'[i] = Row(it.symbol, it.data, now)
          /\ Moves(w, "alert", "end") =>
                 \A s \in DOMAIN last_alerts' :
                     EntryKept(s) \/ \E it \in ItemsOf(threads[w].prices) : it.symbol = s
          /\ Moves(w, "end", "idle") => threads'[w] = Idle
          /\ Moves(w, "idle", "fetch") => threads'[w] = [pc |-> "fetch"]]_vars

\* a cycle that ended with its error logged after an exception in
\* process_alerts
C24_Witness ==
    /\ call.op = "process_alerts"
    /\ call.fault # 0
    /\ ret.raised
    /\ threads[call.w].pc = "end"
    /\ threads[call.w].outcome = "error_logged"

\* C27: whatever log_prices did with the batch, process_alerts is called
\* next on the whole batch and evaluates every valid item of it, and the
\* process_alerts call, whatever its alerts and channels do, changes no
\* sink.
C27_IndependentConsumers ==
    [][\A w \in Workers :
          /\ (threads[w].pc = "log" /\ threads'[w] # threads[w]) =>
                 threads'[w].pc = "alert" /\ threads'[w].prices = threads[w].prices
          /\ Moves(w, "alert", "end") =>
                 /\ call'.op = "process_alerts" /\ call'.prices = threads[w].prices
                 /\ call'.fault = 0 => ret'.checked = ValidItems(threads[w].prices)
                 /\ db' = db /\ csv' = csv /\ observed' = observed]_vars

\* a cycle whose log_prices wrote nothing to either sink and whose
\* process_alerts emitted an alert all the same
C27_Witness ==
    /\ call.op = "process_alerts"
    /\ threads[call.w].pc = "end"
    /\ threads[call.w].logged_count = 0
    /\ db = <<>> /\ csv = <<>>
    /\ Len(ret.alerts) = 1

-----------------------------------------------------------------------------
(* Properties of a re-delivered sample *)

\* the sample it is already in the table, recorded inside the dedup window
\* before now, and was alerted on when it was recorded
Redelivered(it) ==
    \E i \in 1..Len(db) :
        /\ db[i].symbol = it.symbol /\ db[i].asset_type = it.data.type
        /\ db[i].price = it.data.price /\ db[i].change_24h = it.data.change_24h
        /\ now - db[i].timestamp <= DedupWindow
        /\ it.symbol \in DOMAIN last_alerts /\ last_alerts[it.symbol] = db[i].timestamp

\* C26: a cycle that delivers again a sample already recorded inside the
\* dedup window adds no row for it and emits no alert for it beyond the
\* one of its first delivery.
C26_RedeliveryAddsNothing ==
    [][call'.op = "update_prices" =>
          \A it \in ItemsOf(call'.prices) :
              Redelivered(it) =>
                  /\ \A i \in (Len(db) + 1)..Len(db') :
                         ~(db'[i].symbol = it.symbol /\ db'[i].asset_type = it.data.type)
                  /\ \A k \in 1..Len(ret'.alerts) : ret'.alerts[k].symbol # it.symbol]_vars

-----------------------------------------------------------------------------
(* Properties of the recorded timestamp *)

\* C31: every row of the price_data table carries, as its timestamp, the
\* observed_at ('timestamp') of the observation it was written for, whenever
\* log_prices was called.  Stated for the runs in which no sink access
\* failed (faults = 0).
C31_TimestampIsObservedAt ==
    faults = 0 =>
        /\ Len(db) = Len(observed)
        /\ \A i \in 1..Len(db) : db[i].timestamp = observed[i]

-----------------------------------------------------------------------------
(* Properties of a batch with one failing entry *)

\* C32: when the INSERT of one entry of data_to_log raises, every other
\* entry of data_to_log is in the price_data table after the call, and the
\* returned count covers at least those entries.
C32_DegradationPerEntry ==
    [][(IsLogStep /\ "failed" \in DOMAIN call'.env) =>
         /\ \A j \in 1..Len(ret'.rows) :
               j # call'.env.failed =>
                   \E i \in (Len(db) + 1)..Len(db') : db'[i] = ret'.rows[j]
         /\ ret'.count >= Len(ret'.rows) - 1]_vars

-----------------------------------------------------------------------------
(* Properties of repeated crossings *)

\* the alerts stamped early enough for a whole cooldown to pass before the
\* last sampled instant
RearmStamps == {t \in RearmTimes : t + ALERT_COOLDOWN <= RearmHorizon}

\* C33: a crossing evaluated inside the cooldown leaves last_alerts[symbol]
\* as it was, a crossing evaluated at least `cooldown` seconds after the
\* symbol's last alert emits again; hence, for an asset that crosses on every
\* cycle, every alert is followed by a later alert (for every alert stamped at
\* least one cooldown before the last sampled instant).
C33_NeverSuppressedForever ==
    /\ [](call.op = "check_price_alerts" =>
            \A it \in ItemsOf(call.prices) :
                (Crossing(it) /\ it.symbol \in DOMAIN ret.before) =>
                    IF now - ret.before[it.symbol] >= cooldown
                    THEN AlertsFor(it.symbol) # {} /\ last_alerts[it.symbol] = now
                    ELSE AlertsFor(it.symbol) = {}
                         /\ last_alerts[it.symbol] = ret.before[it.symbol])
    /\ \A t \in RearmStamps :
          (SymX \in DOMAIN last_alerts /\ last_alerts[SymX] = t)
              ~> (/\ call.op = "check_price_alerts"
                  /\ AlertsFor(SymX) # {}
                  /\ last_alerts[SymX] > t)

\* C33 witness: an alert, crossings suppressed since, and the asset alerts
\* again later than one cooldown after an alert that was not its first
C33_Witness ==
    /\ call.op = "check_price_alerts"
    /\ SymX \in DOMAIN ret.before
    /\ ret.before[SymX] > 0
    /\ now - ret.before[SymX] > cooldown
    /\ AlertsFor(SymX) # {}
    /\ last_alerts[SymX] = now

-----------------------------------------------------------------------------
(* Properties of repeated deliveries *)

\* the rows of the table, among those at positions from..to, that carry the
\* key of the item it
RowsOfKey(table, from, to, it) ==
    {i \in from..to :
        table[i].symbol = it.symbol /\ table[i].asset_type = it.data.type}

\* the recordings made early enough for more than a dedup window to pass
\* before the last sampled instant
StarveStamps == {t \in StarveTimes : t + DedupWindow < StarveHorizon}

\* C34: in a log_prices call whose dedup query and INSERT succeed, a valid
\* observation whose key has no row, or only rows recorded more than the
\* dedup window before the call, gets a row stamped with the time of the
\* call, and a skipped one adds no row; hence, for an asset delivered on
\* every cycle, every recording is followed by a later recording (for every
\* recording made more than a dedup window before the last sampled instant,
\* while the table has room).
C34_RecordingNotStarved ==
    /\ [][(IsLogStep /\ call'.env.queryOk /\ call'.env.sqliteOk) =>
            \A it \in ItemsOf(call'.prices) :
                Valid(it) =>
                    IF \A i \in RowsOfKey(db, 1, Len(db), it) :
                          now - db[i].timestamp > DedupWindow
                    THEN \E i \in RowsOfKey(db', Len(db) + 1, Len(db'), it) :
                            db'[i].timestamp = now
                    ELSE RowsOfKey(db', Len(db) + 1, Len(db'), it) = {}]_vars
    /\ \A t \in StarveStamps :
          (/\ Len(db) < MaxRows
           /\ \E i \in 1..Len(db) : db[i].symbol = SymX /\ db[i].timestamp = t
           /\ \A i \in 1..Len(db) : db[i].timestamp <= t)
              ~> (\E i \in 1..Len(db) : db[i].symbol = SymX /\ db[i].timestamp > t)

\* C34 witness: the asset was recorded, and its delivery made one second
\* after the end of the dedup window of that recording is recorded as well
C34_Witness ==
    /\ call.op = "log_prices"
    /\ call.env = NoEnv
    /\ Len(db) = 2
    /\ db[1].symbol = SymX /\ db[2].symbol = SymX
    /\ db[2].timestamp = now
    /\ db[2].timestamp - db[1].timestamp > DedupWindow
    /\ db[2].timestamp - db[1].timestamp <= DedupWindow + 1
    /\ ret.rows = <<db[2]>>

-----------------------------------------------------------------------------
(* Properties of the statistics *)

\* C35: the 'total_alerts_sent' that get_alert_stats reports counts every
\* alert check_price_alerts has emitted: it is 0 for the engine as
\* constructed, and every call of check_price_alerts raises it by the number
\* of alerts the call returns.
C35_TotalCountsEveryAlert ==
    [][/\ get_alert_stats(EmptyMap, now).total_alerts_sent = 0
       /\ call'.op = "check_price_alerts" =>
             get_alert_stats(last_alerts', now').total_alerts_sent =
                 get_alert_stats(last_alerts, now).total_alerts_sent + Len(ret'.alerts)]_vars

-----------------------------------------------------------------------------
(* Properties of the dashboard's rate limit *)

\* C36: the requests a client makes in a row at one instant lie in one
\* window, so the client's count is at least their number, and each of them
\* beyond the first MAX_REQUESTS_PER_MINUTE is answered with 429 without the
\* endpoint being run.
C36_RequestsLimitedPerWindow ==
    call.op = "api_alerts" =>
        /\ call.client_ip \in DOMAIN request_counts
        /\ request_counts[call.client_ip].count >= call.seen
        /\ call.seen > MAX_REQUESTS_PER_MINUTE => (ret.status = 429 /\ ~ret.ran)

-----------------------------------------------------------------------------
(* Properties of the purge with respect to the dedup check *)

\* C37: whatever day count it is called with, cleanup_old_data keeps every
\* row stamped within the dedup window of the current time, leaves the
\* answer of the dedup query unchanged for every key and every call made now
\* or later, and leaves the flat log as it is.
C37_PurgeKeepsDedup ==
    [][call'.op = "cleanup_old_data" =>
          /\ \A i \in 1..Len(db) :
                Within(db[i].timestamp, now, DedupWindow) =>
                    \E j \in 1..Len(db') : db'[j] = db[i]
          /\ \A t \in {u \in PurgeTimes : u >= now} :
                \A symbol \in {SymX, SymY}, type \in AssetTypes :
                    DuplicateCount(symbol, t, type)' = DuplicateCount(symbol, t, type)
          /\ csv' = csv]_vars

\* C37 witness: a purge deleted an old row and kept the row recorded within
\* the dedup window of the purge
C37_Witness ==
    /\ call.op = "cleanup_old_data"
    /\ ret.deleted_count > 0
    /\ \E i \in 1..Len(db) : Within(db[i].timestamp, now, DedupWindow)

====
